---- MODULE Spec2Model ----
(***************************************************************************)
(* Conversation / analysis pipeline of the CSV analysis chat application.  *)
(*                                                                         *)
(* Two specifications:                                                     *)
(*   SpecRetry  callApiWithRetry (services/geminiService.ts), stepped one  *)
(*              loop iteration at a time against a script of outcomes of   *)
(*              the underlying call;                                       *)
(*   Spec       the session: the App state machine and the chat turn of    *)
(*              ChatInterface, in the two generations of the application   *)
(*              the repository holds (see `app`).                          *)
(*                                                                         *)
(* Strings.  Chat texts are TLA+ strings (Len and \o are the JavaScript    *)
(* length and concatenation; accented letters are written unaccented, one  *)
(* character for one character).  Error messages are sequences of words    *)
(* over a small vocabulary: String.includes is "is a contiguous            *)
(* subsequence" and toLowerCase works word by word.                        *)
(***************************************************************************)
EXTENDS Integers, Sequences, FiniteSets, TLC

VARIABLES
    \* ---- callApiWithRetry (SpecRetry) ----
    apiScript,      \* outcome of the 1st, 2nd, ... invocation of apiCall
    apiCalls,       \* number of invocations of apiCall made so far
    attempt,        \* the loop variable `attempt`
    lastError,      \* the local `lastError`
    waits,          \* the backoffTime of every delay() awaited so far
    retryPc,        \* "idle" | "loop" | "delay" | "returned" | "thrown"
    retryOut,       \* the value returned or the error thrown
    \* ---- the session (Spec) ----
    app,            \* which generation of the application runs: "stream" is
                    \* App of components/PreAnalysisView.tsx with the streaming
                    \* ChatInterface.tsx; "props" is App.tsx with the
                    \* ChatInterface of components/AnalysisDisplay.tsx
    appState,       \* App: appState
    error,          \* App: error ({title, message} or null)
    currentFile,    \* App (stream): currentFile
    preAnalysisResult, \* App (stream): preAnalysisResult
    analysisResult, \* App (stream): analysisResult
    messages,       \* ChatInterface (stream) / App (props): messages
    isLoading,      \* ChatInterface (stream): isLoading
    conversationSummary, \* ChatInterface (stream): conversationSummary
    crashed,        \* a state updater threw while React rendered: the root is gone
    epoch,          \* number of the mounted ChatInterface (stream) / of the
                    \* session since the last resetState (props)
    task,           \* the pending upload / pre-analysis / initial-analysis call
    turn,           \* stream: the submitQuery call in flight, or NoTurn
    staleTurns,     \* stream: submitQuery calls of unmounted ChatInterfaces
    summaries,      \* stream: summarizeConversation calls in flight
    nextId,         \* the clock behind Date.now() in message ids
    turnCount,      \* chat questions asked so far (bounded)
    uploads,        \* files uploaded so far (bounded)
    ended,          \* history: the chat turn that ended, if none has started since
    sumLog,         \* history: the summarizations settled in this epoch
    errTurns,       \* history: chat turns of this epoch that ended in failure
    failure,        \* history: the service call that failed, if the last one did
    \* ---- the session, App.tsx only ----
    file,           \* App (props): file
    fileName,       \* App (props): fileName
    csvData,        \* App (props): csvData, the text as its lines of cells
    dataProfile,    \* App (props): dataProfile
    preAnalysis,    \* App (props): preAnalysis
    isProcessing,   \* App (props): isProcessing
    localStorage,   \* the browser's localStorage: key -> stored messages
    turns,          \* props: the handleSendMessage calls in flight
    reloads,        \* page reloads so far (bounded)
    \* ---- the post-processing of plot tables on its own (SpecNormalize) ----
    parsedResult,   \* the response as JSON.parse returned it
    viaCallGemini,  \* what the passes of callGemini's post-processing returned
    viaSubmitQuery, \* what the passes of submitQuery's post-processing returned
    \* ---- the engine the page runs on ----
    dateParseLenient \* whether its Date.parse takes a plain numeral for a date

retryVars == <<apiScript, apiCalls, attempt, lastError, waits, retryPc, retryOut>>

appVars == <<app, appState, error, currentFile, preAnalysisResult, analysisResult>>
chatVars == <<messages, isLoading, conversationSummary>>
runVars == <<crashed, epoch, task, turn, staleTurns, summaries, nextId, turnCount, uploads>>
histVars == <<ended, sumLog, errTurns, failure>>

propsVars == <<file, fileName, csvData, dataProfile, preAnalysis, isProcessing,
               localStorage, turns, reloads>>

sessionVars == <<appVars, chatVars, runVars, histVars, propsVars>>
normVars == <<parsedResult, viaCallGemini, viaSubmitQuery>>

\* What the session leaves alone.
pureVars == <<retryVars, normVars, dateParseLenient>>

vars == <<retryVars, sessionVars, normVars, dateParseLenient>>

-----------------------------------------------------------------------------
(* Error messages as word sequences *)

\* A thrown value: its class (cls; "other" is a value that is not an Error
\* object), its message and, for DataParsingError, its optional title.
Null == [null |-> TRUE]
NoValue == "(none)"
NoTitle == "(undefined)"
Err(cls, message) == [cls |-> cls, message |-> message, title |-> NoTitle]
NoError == Err("(none)", <<>>)

\* error instanceof Error
instanceofError(e) ==
    e.cls \in {"Error", "SyntaxError", "TypeError", "GeminiApiError", "DataParsingError"}

\* String.prototype.toLowerCase, word by word
LowerWord(w) ==
    CASE w = "Quota"   -> "quota"
      [] w = "API key" -> "api key"
      [] w = "API"     -> "api"
      [] OTHER         -> w

toLowerCase(message) == [i \in 1..Len(message) |-> LowerWord(message[i])]

\* String.prototype.includes: needle is a contiguous part of message
includes(message, needle) ==
    \E i \in 0..(Len(message) - Len(needle)) :
        SubSeq(message, i + 1, i + Len(needle)) = needle

\* What the completion service's SDK can throw.  The last one is a thrown
\* value that is not an Error object (error instanceof Error is false).
SdkErrors ==
    { Err("Error", <<"429", " Too Many Requests">>),
      Err("Error", <<"You exceeded your current ", "quota">>),
      Err("Error", <<"Quota", " exceeded">>),
      Err("Error", <<"API key", " not valid">>),
      Err("Error", <<"Failed to fetch">>),
      Err("other", <<"aborted">>) }

\* One outcome of the underlying call: it resolves with a value or rejects.
Resolve(v) == [ok |-> TRUE,  value |-> v,       error |-> NoError]
Reject(e)  == [ok |-> FALSE, value |-> NoValue, error |-> e]

ApiValues == {"response1", "response2"}

ApiOutcomes == {Resolve(v) : v \in ApiValues} \cup {Reject(e) : e \in SdkErrors}

NoTask == [kind |-> "none"]
NoTurn == [pc |-> "idle"]
NoEnded == [how |-> "none"]
NoFailure == [path |-> "none"]

\* The session before anything has happened (and, under SpecRetry, for ever).
SessionIdle ==
    /\ error = Null
    /\ currentFile = Null
    /\ preAnalysisResult = Null
    /\ analysisResult = Null
    /\ messages = <<>>
    /\ isLoading = FALSE
    /\ conversationSummary = ""
    /\ crashed = FALSE
    /\ epoch = 0
    /\ task = NoTask
    /\ turn = NoTurn
    /\ staleTurns = {}
    /\ summaries = {}
    /\ nextId = 1
    /\ turnCount = 0
    /\ uploads = 0
    /\ ended = NoEnded
    /\ sumLog = <<>>
    /\ errTurns = 0
    /\ failure = NoFailure
    /\ file = Null
    /\ fileName = ""
    /\ csvData = <<>>
    /\ dataProfile = Null
    /\ preAnalysis = Null
    /\ isProcessing = FALSE
    /\ localStorage = [key \in {} |-> <<>>]
    /\ turns = {}
    /\ reloads = 0

\* No response is being post-processed.
NormIdle ==
    /\ dateParseLenient = TRUE
    /\ parsedResult = Null
    /\ viaCallGemini = <<>>
    /\ viaSubmitQuery = <<>>

-----------------------------------------------------------------------------
(* callApiWithRetry *)

MAX_RETRIES == 3
INITIAL_BACKOFF_MS == 2000
JITTER_MS == 1000

\* Length of the script of outcomes: one more than MAX_RETRIES, so that a
\* fourth invocation would be seen.
ScriptLen == 4

\* Math.random() * 1000 lies in [0, 1000): the two ends and the middle.
Jitters == {0, JITTER_MS \div 2, JITTER_MS - 1}

RECURSIVE Pow2(_)
Pow2(n) == IF n = 0 THEN 1 ELSE 2 * Pow2(n - 1)

\* (a retry test that lets every Error through to the retry branch)
isRetriable_anyError(e) == instanceofError(e)

\* error instanceof Error && (message.includes('429') ||
\*                            message.toLowerCase().includes('quota'))
isRetriable(e) ==
    /\ instanceofError(e)
    /\ \/ includes(e.message, <<"429">>)
       \/ includes(toLowerCase(e.message), <<"quota">>)

\* (a backoff that does not grow with the attempt)
backoffTime_flat(a, jitter) == INITIAL_BACKOFF_MS + jitter

\* INITIAL_BACKOFF_MS * Math.pow(2, attempt) + Math.random() * 1000
backoffTime(a, jitter) == INITIAL_BACKOFF_MS * Pow2(a) + jitter

\* (loop bounds off by one, either way)
loopContinues_short(a) == a < MAX_RETRIES - 1
loopContinues_long(a) == a <= MAX_RETRIES

\* for (...; attempt < MAX_RETRIES; ...)
loopContinues(a) == a < MAX_RETRIES

\* if (attempt < MAX_RETRIES - 1) { ... await delay(backoffTime) }
waitsBeforeRetry(a) == a < MAX_RETRIES - 1

InitRetry ==
    /\ apiScript \in [1..ScriptLen -> ApiOutcomes]
    /\ apiCalls = 0
    /\ attempt = 0
    /\ lastError = NoError
    /\ waits = <<>>
    /\ retryPc = "loop"
    /\ retryOut = NoValue
    /\ app = "none"
    /\ appState = "none"
    /\ SessionIdle
    /\ NormIdle

\* One iteration of the loop: the call, and on failure the catch block up to
\* the await of delay() or to the throw.
RetryAttempt ==
    /\ retryPc = "loop"
    /\ loopContinues(attempt)
    /\ apiCalls < Len(apiScript)
    /\ LET outcome == apiScript[apiCalls + 1] IN
        /\ apiCalls' = apiCalls + 1
        /\ IF outcome.ok
           THEN /\ retryPc' = "returned"
                /\ retryOut' = outcome.value
                /\ UNCHANGED <<attempt, lastError, waits>>
           ELSE /\ lastError' = outcome.error
                /\ IF isRetriable(outcome.error)
                   THEN IF waitsBeforeRetry(attempt)
                        THEN /\ \E jitter \in Jitters :
                                   waits' = Append(waits, backoffTime(attempt, jitter))
                             /\ retryPc' = "delay"
                             /\ UNCHANGED <<attempt, retryOut>>
                        ELSE /\ attempt' = attempt + 1
                             /\ UNCHANGED <<waits, retryPc, retryOut>>
                   ELSE /\ retryPc' = "thrown"
                        /\ retryOut' = outcome.error
                        /\ UNCHANGED <<attempt, waits>>
    /\ UNCHANGED <<apiScript, sessionVars, normVars, dateParseLenient>>

\* delay(backoffTime) resolves; the loop goes to its next iteration.
RetryDelayDone ==
    /\ retryPc = "delay"
    /\ attempt' = attempt + 1
    /\ retryPc' = "loop"
    /\ UNCHANGED <<apiScript, apiCalls, lastError, waits, retryOut, sessionVars, normVars, dateParseLenient>>

\* The loop is left: throw lastError.
RetryExhausted ==
    /\ retryPc = "loop"
    /\ ~loopContinues(attempt)
    /\ retryPc' = "thrown"
    /\ retryOut' = lastError
    /\ UNCHANGED <<apiScript, apiCalls, attempt, lastError, waits, sessionVars, normVars, dateParseLenient>>

NextRetry ==
    \/ RetryAttempt
    \/ RetryDelayDone
    \/ RetryExhausted

SpecRetry == InitRetry /\ [][NextRetry]_vars


-----------------------------------------------------------------------------
(* The completion service seen through callApiWithRetry                     *)
(*                                                                          *)
(* A call made through callApiWithRetry ends in one of its terminal         *)
(* outcomes (SpecRetry): the response of the invocation that succeeded, or  *)
(* the error of the invocation that failed last.  The service answers with  *)
(* text that conforms to the requested schema, or with text that is not     *)
(* JSON (a truncated answer).                                               *)

AnalysisJson == "{\"findings\":[],\"suggested_followups\":[\"q\"]}"
PreAnalysisJson == "{\"summary\":\"s\",\"suggestedQuestions\":[\"q\"]}"
TruncatedJson == "{\"findings\":["

\* The summary the service writes for the summarization request `id`.
SummaryOf(id) == "summary#" \o ToString(id)
SummaryJson(summary) == "{\"summary\":\"" \o summary \o "\"}"

SummaryIds == 1..64

\* String.prototype.trim over the texts of the model (they carry at most one
\* trailing line feed; the cells of a plot table may be blank or padded)
trim(text) ==
    LET known == {AnalysisJson, PreAnalysisJson, TruncatedJson, SummaryJson("")}
                   \cup {SummaryJson(SummaryOf(id)) : id \in SummaryIds}
    IN IF \E u \in known : text = u \o "\n"
       THEN CHOOSE u \in known : text = u \o "\n"
       ELSE CASE text = " "     -> ""
              [] text = " 200 " -> "200"
              [] text = " 5"    -> "5"
              [] OTHER          -> text

\* JSON.parse: the parsed value, or ok = FALSE for the SyntaxError it throws.
JSONparse(text) ==
    CASE text \in {AnalysisJson, AnalysisJson \o " "} ->
            [ok |-> TRUE, value |-> [findings |-> <<>>, suggested_followups |-> <<"q">>]]
      [] text = PreAnalysisJson ->
            [ok |-> TRUE, value |-> [summary |-> "s", suggestedQuestions |-> <<"q">>]]
      [] text = SummaryJson("") ->
            [ok |-> TRUE, value |-> [summary |-> ""]]
      [] \E id \in SummaryIds : text = SummaryJson(SummaryOf(id)) ->
            [ok |-> TRUE,
             value |-> [summary |-> SummaryOf(CHOOSE id \in SummaryIds :
                                                  text = SummaryJson(SummaryOf(id)))]]
      [] OTHER -> [ok |-> FALSE, value |-> Null]

SyntaxError == Err("SyntaxError", <<"Unexpected end of JSON input">>)

\* A service function returns a parsed object or throws.
Returns(v) == [ok |-> TRUE,  value |-> v,    error |-> NoError]
Throws(e)  == [ok |-> FALSE, value |-> Null, error |-> e]

GeminiApiError(message) == Err("GeminiApiError", message)
DataParsingError(message, title) ==
    [cls |-> "DataParsingError", message |-> message, title |-> title]

\* The error mapping shared by callGemini, callGeminiForPreAnalysis and
\* getChatResponseStream (prefix: the text before "Causa:").
mapGeminiError(e, prefix) ==
    LET errorMessage == IF instanceofError(e) THEN e.message
                        ELSE <<"An unknown error occurred.">>
    IN IF includes(errorMessage, <<"API key", " not valid">>)
       THEN GeminiApiError(<<"A chave da ", "API",
                             " fornecida e invalida. Verifique sua configuracao.">>)
       ELSE IF includes(errorMessage, <<"quota">>)
       THEN GeminiApiError(<<"A cota de uso da ", "API",
                             " foi excedida. Por favor, tente novamente mais tarde.">>)
       ELSE GeminiApiError(<<prefix>> \o errorMessage)

-----------------------------------------------------------------------------
(* Plot tables and their conversion to row objects *)

\* The values of a parsed response, each under a tag of its own: a string, a
\* number, an array, an object (Null is null; Undefined is a missing property
\* or array element; NaN and Infinity are the numbers that are not finite).
Str(s) == [str |-> s]
Num(n) == [num |-> n]
Arr(elements) == [arr |-> elements]
Obj(properties) == [obj |-> properties]
Undefined == [undefined |-> TRUE]
NaN == [nan |-> TRUE]
Infinity == [infinity |-> TRUE]

typeofString(v) == DOMAIN v = {"str"}
isArray(v) == DOMAIN v = {"arr"}
isNaN(x) == x = NaN

\* Number(text): white space around the digits is skipped and blank text is 0.
NumberOfText(text) ==
    CASE text = "150" -> Num(150)
      [] text \in {"200", " 200 "} -> Num(200)
      [] text \in {"", " "} -> Num(0)
      [] text = "1" -> Num(1)
      [] text = "-3" -> Num(-3)
      [] text \in {"5", " 5"} -> Num(5)
      [] text = "1.5" -> [float |-> <<1, 5>>]
      [] text = "Infinity" -> Infinity
      [] OTHER -> NaN

\* Number(value)
Number(v) ==
    CASE typeofString(v) -> NumberOfText(v.str)
      [] DOMAIN v = {"num"} \/ v = Infinity -> v
      [] v = Null -> Num(0)
      [] OTHER -> NaN

\* What `value && ...` takes for true.
truthy(v) ==
    CASE typeofString(v) -> v.str # ""
      [] DOMAIN v = {"num"} -> v.num # 0
      [] v = Null \/ v = Undefined \/ v = NaN -> FALSE
      [] OTHER -> TRUE

\* String(h), the name of the property that obj[h] sets
String(h) ==
    CASE typeofString(h) -> h.str
      [] DOMAIN h = {"num"} -> ToString(h.num)
      [] h = Null -> "null"
      [] OTHER -> "undefined"

\* row[index] (index from 0): an element of an array, nothing for an object
\* (whose properties have other names)
at(row, index) ==
    IF isArray(row) /\ index + 1 \in 1..Len(row.arr) THEN row.arr[index + 1]
    ELSE Undefined

\* row[index] throws for these.
nullish(v) == v = Null \/ v = Undefined

\* The object that headers.forEach fills: a later header of the same name
\* overwrites an earlier one.
rowObject(headers, cells) ==
    LET names == {String(headers[i]) : i \in 1..Len(headers)}
        last(name) == CHOOSE i \in 1..Len(headers) :
                         /\ String(headers[i]) = name
                         /\ \A j \in 1..Len(headers) : String(headers[j]) = name => j <= i
    IN Obj([name \in names |-> cells[last(name)]])

TypeError == Err("TypeError", <<"Cannot read properties of null">>)

\* The cell of convertData
convertCell(value) ==
    IF ~typeofString(value)
    THEN value
    ELSE LET trimmedValue == trim(value.str) IN
         IF trimmedValue # "" /\ ~isNaN(NumberOfText(trimmedValue))
         THEN NumberOfText(trimmedValue)
         ELSE value

\* convertData of callGemini: row objects from an array of arrays.  A row
\* that is null, or a first row that is no array, makes it throw.
convertData(data) ==
    IF ~isArray(data) \/ Len(data.arr) < 2
    THEN Returns(Arr(<<>>))
    ELSE IF ~isArray(data.arr[1]) \/ \E i \in 2..Len(data.arr) : nullish(data.arr[i])
    THEN Throws(TypeError)
    ELSE LET headers == data.arr[1].arr IN
         Returns(Arr([i \in 1..(Len(data.arr) - 1) |->
                         rowObject(headers, [j \in 1..Len(headers) |->
                                        convertCell(at(data.arr[i + 1], j - 1))])]))

\* The cell of the conversion that submitQuery does in line
streamCell(value) ==
    IF truthy(value) /\ ~isNaN(Number(value)) THEN Number(value) ELSE value

\* The conversion that submitQuery does in line, on the partial results and
\* on the final one.
streamConvertData(data) ==
    IF ~isArray(data.arr[1]) \/ \E i \in 2..Len(data.arr) : nullish(data.arr[i])
    THEN Throws(TypeError)
    ELSE LET headers == data.arr[1].arr IN
         Returns(Arr([i \in 1..(Len(data.arr) - 1) |->
                         rowObject(headers, [j \in 1..Len(headers) |->
                                        streamCell(at(data.arr[i + 1], j - 1))])]))

\* (a guard that does not look at what the first row is)
hasTable_anyFirstRow(finding) ==
    /\ truthy(finding.plot)
    /\ isArray(finding.plot.obj.data)
    /\ Len(finding.plot.obj.data.arr) > 0

\* finding.plot && Array.isArray(finding.plot.data) &&
\* finding.plot.data.length > 0 && Array.isArray(finding.plot.data[0])
hasTable(finding) ==
    /\ truthy(finding.plot)
    /\ isArray(finding.plot.obj.data)
    /\ Len(finding.plot.obj.data.arr) > 0
    /\ isArray(finding.plot.obj.data.arr[1])

\* result.findings.forEach of either generation: the data of every finding
\* that has a table is replaced by what the conversion made of it
\* (converted[i], for finding i); what the conversion throws comes out as
\* `thrown`.
forEachFinding(result, converted, thrown) ==
    LET failing == {i \in 1..Len(result.findings) :
                       hasTable(result.findings[i]) /\ ~converted[i].ok}
    IN IF failing # {}
       THEN Throws(thrown)
       ELSE Returns([result EXCEPT !.findings =
               [i \in 1..Len(result.findings) |->
                   LET finding == result.findings[i] IN
                   IF hasTable(finding)
                   THEN [finding EXCEPT !.plot =
                           Obj([finding.plot.obj EXCEPT !.data = converted[i].value])]
                   ELSE finding]])

\* The second try block of callGemini
postProcess(result) ==
    forEachFinding(result,
        [i \in 1..Len(result.findings) |->
            IF hasTable(result.findings[i])
            THEN convertData(result.findings[i].plot.obj.data) ELSE Returns(Null)],
        DataParsingError(<<"A IA retornou dados de visualizacao em um formato que nao pode ser processado.">>,
                         NoTitle))

\* The post-processing of submitQuery, on a partial result and on the final
\* one: nothing stands between what the conversion throws and the caller.
streamPostProcess(result) ==
    forEachFinding(result,
        [i \in 1..Len(result.findings) |->
            IF hasTable(result.findings[i])
            THEN streamConvertData(result.findings[i].plot.obj.data) ELSE Returns(Null)],
        TypeError)

\* callGemini, given the terminal outcome of its callApiWithRetry.
callGemini(out) ==
    IF ~out.ok
    THEN Throws(mapGeminiError(out.error, "Falha ao obter analise do Gemini. Causa: "))
    ELSE LET parsed == JSONparse(trim(out.value)) IN
         IF ~parsed.ok
         THEN Throws(mapGeminiError(SyntaxError, "Falha ao obter analise do Gemini. Causa: "))
         ELSE postProcess(parsed.value)

\* (a pre-analysis that passes on whatever JSON.parse made of the text)
callGeminiForPreAnalysis_lenient(out) ==
    IF ~out.ok
    THEN Throws(mapGeminiError(out.error, "Falha ao obter pre-analise do Gemini. Causa: "))
    ELSE Returns(JSONparse(trim(out.value)).value)

\* callGeminiForPreAnalysis, likewise.
callGeminiForPreAnalysis(out) ==
    IF ~out.ok
    THEN Throws(mapGeminiError(out.error, "Falha ao obter pre-analise do Gemini. Causa: "))
    ELSE LET parsed == JSONparse(trim(out.value)) IN
         IF ~parsed.ok
         THEN Throws(mapGeminiError(SyntaxError, "Falha ao obter pre-analise do Gemini. Causa: "))
         ELSE Returns(parsed.value)

\* (a summarizer that lets its failure out)
summarizeConversation_rethrows(out) ==
    IF ~out.ok \/ ~JSONparse(trim(out.value)).ok
    THEN "(raised)"
    ELSE JSONparse(trim(out.value)).value.summary

\* summarizeConversation, given the terminal outcome of its callApiWithRetry:
\* result.summary || "", and "" from the catch block.
summarizeConversation(out) ==
    IF ~out.ok
    THEN ""
    ELSE LET parsed == JSONparse(trim(out.value)) IN
         IF ~parsed.ok THEN "" ELSE parsed.value.summary

\* fileToText rejects with the FileReader's error event, which is no Error.
FileReadError == Err("other", <<"[object ProgressEvent]">>)

\* A service call that failed: the function that was awaited, the terminal
\* outcome of its callApiWithRetry (NoReply when fileToText rejected before
\* any request) and what came out of it.
NoReply == [reply |-> "none"]
Failed(path, reply, e) == [path |-> path, reply |-> reply, error |-> e]

\* Terminal outcomes of callApiWithRetry for the three kinds of request.
AnalysisReplies ==
    {Resolve(AnalysisJson \o "\n"), Resolve(TruncatedJson)} \cup {Reject(e) : e \in SdkErrors}
PreAnalysisReplies ==
    {Resolve(PreAnalysisJson), Resolve(TruncatedJson)} \cup {Reject(e) : e \in SdkErrors}
SummaryReplies(id) ==
    {Resolve(SummaryJson(SummaryOf(id))), Resolve(SummaryJson("")), Resolve(TruncatedJson)}
        \cup {Reject(e) : e \in SdkErrors}

\* The chunks of a streamed answer: complete after the second chunk,
\* complete after the first one with white space to follow, cut short, and
\* empty.
StreamDocs ==
    { <<"{\"findings\":[],", "\"suggested_followups\":[\"q\"]}">>,
      <<AnalysisJson, " ">>,
      <<TruncatedJson>>,
      <<>> }

-----------------------------------------------------------------------------
(* Chat messages and the memory optimization of submitQuery *)

NoResult == [undefined |-> TRUE]

Msg(id, sender, text, result, typing, isErr) ==
    [id |-> id, sender |-> sender, text |-> text, analysisResult |-> result,
     isTyping |-> typing, isError |-> isErr]

InitialAgentText ==
    "Aqui esta a analise inicial do seu conjunto de dados. O que mais voce gostaria de explorar?"
StreamAgentText ==
    "Com base em sua solicitacao, aqui estao os principais achados que identifiquei."
QuotaText ==
    "Desculpe, parece que atingimos o limite de solicitacoes a IA no momento. Por favor, aguarde alguns minutos antes de tentar novamente."
ApiKeyText ==
    "Ocorreu um problema de configuracao interna. A equipe tecnica ja foi notificada. Por favor, tente novamente mais tarde."
CommunicationText ==
    "Houve um problema de comunicacao com o servico de IA. Isso pode ser um problema temporario. Verifique sua conexao e tente novamente."
ParsingText ==
    "Nao consegui interpretar a resposta da IA. Isso pode acontecer se a analise for muito complexa ou se os dados tiverem um formato inesperado. Tente reformular sua pergunta para ser mais especifica ou simples."
UnexpectedText ==
    "Ocorreu um erro inesperado ao processar sua solicitacao. Tente fazer uma pergunta diferente ou, se o problema persistir, comece uma nova analise."

\* useState initializer of ChatInterface: the one agent turn of a new chat
initialMessages(initialAnalysis) ==
    << Msg("initial-agent-message", "agent", InitialAgentText, initialAnalysis, FALSE, FALSE) >>

HISTORY_CHAR_LIMIT == 4000
RECENT_MESSAGES_TO_KEEP == 4

\* `${m.sender}: ${m.content.text}`
lineOf(m) == m.sender \o ": " \o m.text

\* msgs.map(lineOf).join('\n')
RECURSIVE joinLines(_)
joinLines(msgs) ==
    IF Len(msgs) = 0 THEN ""
    ELSE IF Len(msgs) = 1 THEN lineOf(msgs[1])
    ELSE lineOf(msgs[1]) \o "\n" \o joinLines(Tail(msgs))

\* currentMessages.filter(m => !m.isTyping)
notTyping(m) == ~m.isTyping
withoutTyping(msgs) == SelectSeq(msgs, notTyping)

\* (a recent part that is the whole transcript)
sliceLast_all(msgs, k) == msgs

\* Array.prototype.slice(0, -k) and slice(-k)
sliceButLast(msgs, k) == SubSeq(msgs, 1, Len(msgs) - k)
sliceLast(msgs, k) ==
    SubSeq(msgs, IF Len(msgs) > k THEN Len(msgs) - k + 1 ELSE 1, Len(msgs))

fullHistoryText(validMessages) == joinLines(validMessages)

\* fullHistoryText.length > HISTORY_CHAR_LIMIT
overLimit(validMessages) == Len(fullHistoryText(validMessages)) > HISTORY_CHAR_LIMIT

textToSummarize(validMessages) ==
    joinLines(sliceButLast(validMessages, RECENT_MESSAGES_TO_KEEP))

\* (a prompt summary that is not suppressed when the history fits)
summaryForPrompt_kept(validMessages, summary) == summary

\* let summaryForPrompt = conversationSummary; ... else summaryForPrompt = ''
summaryForPrompt(validMessages, summary) ==
    IF overLimit(validMessages) THEN summary ELSE ""

historyForPrompt(validMessages) ==
    IF overLimit(validMessages)
    THEN joinLines(sliceLast(validMessages, RECENT_MESSAGES_TO_KEEP))
    ELSE fullHistoryText(validMessages)

\* The text selected by the catch block of submitQuery.
errorMessageText(e) ==
    IF e.cls = "GeminiApiError"
    THEN IF includes(toLowerCase(e.message), <<"quota">>) THEN QuotaText
         ELSE IF includes(toLowerCase(e.message), <<"api key">>) THEN ApiKeyText
         ELSE CommunicationText
    ELSE IF e.cls = "DataParsingError" THEN ParsingText
    ELSE UnexpectedText

\* (a summary update without the `if (newSummary)` guard)
applySummary_unguarded(current, newSummary) == newSummary

\* .then(newSummary => { if (newSummary) setConversationSummary(newSummary) })
applySummary(current, newSummary) ==
    IF newSummary # "" THEN newSummary ELSE current

-----------------------------------------------------------------------------
(* Bounds and inputs of the session *)

MaxTurns == 2
MaxUploads == 2

RECURSIVE Pad(_)
Pad(n) ==
    IF n = 0 THEN ""
    ELSE IF n % 2 = 0 THEN LET h == Pad(n \div 2) IN h \o h
    ELSE "x" \o Pad(n - 1)

\* With this question as the first of a chat the transcript is exactly
\* HISTORY_CHAR_LIMIT characters long.
QuestionToLimit ==
    Pad(HISTORY_CHAR_LIMIT - Len(joinLines(initialMessages(NoResult))) - Len("\nuser: "))

\* A short question, one that fills the transcript up to the limit, and one
\* that is one character longer.
Queries == {"trend?", QuestionToLimit, QuestionToLimit \o "x"}

\* Uploaded files: a CSV, a ZIP holding a CSV, a ZIP holding none, another type.
Files ==
    { [name |-> "data.csv",  kind |-> "csv"],
      [name |-> "data.zip",  kind |-> "zip"],
      [name |-> "empty.zip", kind |-> "zipNoCsv"],
      [name |-> "notes.txt", kind |-> "other"] }

Init ==
    /\ apiScript = <<>>
    /\ apiCalls = 0
    /\ attempt = 0
    /\ lastError = NoError
    /\ waits = <<>>
    /\ retryPc = "idle"
    /\ retryOut = NoValue
    /\ app \in {"stream", "props"}
    /\ appState = IF app = "stream" THEN "pre-analysis" ELSE "PRE_ANALYSIS"
    /\ SessionIdle
    /\ NormIdle

-----------------------------------------------------------------------------
(* App of the streaming generation (components/PreAnalysisView.tsx)         *)

Payload(title, message) == [title |-> title, message |-> message]

\* catch block of handlePreAnalysis
preAnalysisErrorPayload(e) ==
    IF e.cls = "GeminiApiError"
    THEN Payload("Erro de Comunicacao com a IA", e.message)
    ELSE IF e.cls = "DataParsingError"
    THEN Payload(IF e.title # NoTitle THEN e.title ELSE "Erro de Processamento", e.message)
    ELSE IF instanceofError(e)
    THEN Payload("Erro Inesperado", <<"Ocorreu um problema: ">> \o e.message)
    ELSE Payload("Erro Desconhecido",
                 <<"Ocorreu um erro inesperado ao processar o arquivo. Tente novamente.">>)

\* catch block of handleStartAnalysis
analysisErrorPayload(e) ==
    IF e.cls = "GeminiApiError"
    THEN Payload("Erro de Comunicacao com a IA", e.message)
    ELSE IF e.cls = "DataParsingError"
    THEN Payload(IF e.title # NoTitle THEN e.title ELSE "Erro de Interpretacao dos Dados",
                 <<"A resposta da IA nao pode ser processada. ">> \o e.message)
    ELSE IF instanceofError(e)
    THEN Payload("Erro Inesperado", <<"Ocorreu um problema: ">> \o e.message)
    ELSE Payload("Erro Desconhecido",
                 <<"Ocorreu um erro inesperado ao analisar o arquivo. Tente novamente.">>)

StreamUi == app = "stream" /\ ~crashed

ChatMounted == StreamUi /\ appState = "chat"

\* A ChatInterface is mounted with its initial state.
MountChat(initialAnalysis) ==
    /\ messages' = initialMessages(initialAnalysis)
    /\ isLoading' = FALSE
    /\ conversationSummary' = ""
    /\ epoch' = epoch + 1
    /\ ended' = NoEnded
    /\ sumLog' = <<>>
    /\ errTurns' = 0
    /\ failure' = NoFailure

\* The ChatInterface, if there is one, is unmounted: its state is gone and
\* the submitQuery call it has in flight goes on without a component.
UnmountChat ==
    /\ messages' = <<>>
    /\ isLoading' = FALSE
    /\ conversationSummary' = ""
    /\ staleTurns' = IF turn = NoTurn THEN staleTurns ELSE staleTurns \cup {turn.id}
    /\ turn' = NoTurn
    /\ ended' = NoEnded
    /\ sumLog' = <<>>
    /\ errTurns' = 0
    /\ failure' = NoFailure

\* handlePreAnalysis up to its first await (or to its end, when the file type
\* is rejected before anything is awaited).
handlePreAnalysis(f) ==
    /\ StreamUi
    /\ appState = "pre-analysis"
    /\ uploads < MaxUploads
    /\ uploads' = uploads + 1
    /\ IF f.kind = "other"
       THEN /\ error' = preAnalysisErrorPayload(DataParsingError(
                    <<"Tipo de arquivo invalido. Por favor, envie um arquivo CSV ou um ZIP contendo um CSV.">>,
                    "Erro de Upload"))
            /\ appState' = "error"
            /\ UNCHANGED <<currentFile, task>>
       ELSE /\ appState' = "loading-pre-analysis"
            /\ error' = Null
            /\ IF f.kind = "csv"
               THEN /\ currentFile' = f
                    /\ task' = [kind |-> "preAnalysis", file |-> f]
               ELSE /\ task' = [kind |-> "zip", file |-> f]
                    /\ UNCHANGED currentFile
    /\ UNCHANGED <<app, preAnalysisResult, analysisResult, chatVars, crashed, epoch,
                   turn, staleTurns, summaries, nextId, turnCount, histVars,
                   pureVars, propsVars>>

\* JSZip.loadAsync and zipEntry.async have resolved: the first CSV of the
\* archive becomes the file, or there is none.
ZipLoaded ==
    /\ StreamUi
    /\ task.kind = "zip"
    /\ IF task.file.kind = "zipNoCsv"
       THEN /\ error' = preAnalysisErrorPayload(DataParsingError(
                    <<"Nenhum arquivo CSV encontrado no arquivo ZIP.">>, "Erro de Arquivo"))
            /\ appState' = "error"
            /\ task' = NoTask
            /\ UNCHANGED currentFile
       ELSE LET csvFile == [name |-> "data.csv", kind |-> "csv"] IN
            /\ currentFile' = csvFile
            /\ task' = [kind |-> "preAnalysis", file |-> csvFile]
            /\ UNCHANGED <<error, appState>>
    /\ UNCHANGED <<app, preAnalysisResult, analysisResult, chatVars, crashed, epoch,
                   turn, staleTurns, summaries, nextId, turnCount, uploads, histVars,
                   pureVars, propsVars>>

\* performPreAnalysis settles: fileToText rejected, or callGeminiForPreAnalysis
\* returned or threw.
PreAnalysisSettles ==
    /\ StreamUi
    /\ task.kind = "preAnalysis"
    /\ \E reply \in {NoReply} \cup PreAnalysisReplies :
          LET r == IF reply = NoReply THEN Throws(FileReadError)
                   ELSE callGeminiForPreAnalysis(reply)
          IN IF r.ok
             THEN /\ preAnalysisResult' = r.value
                  /\ appState' = "showing_suggestions"
                  /\ UNCHANGED <<error, failure>>
             ELSE /\ error' = preAnalysisErrorPayload(r.error)
                  /\ appState' = "error"
                  /\ failure' = Failed("callGeminiForPreAnalysis", reply, r.error)
                  /\ UNCHANGED preAnalysisResult
    /\ task' = NoTask
    /\ UNCHANGED <<app, currentFile, analysisResult, chatVars, crashed, epoch,
                   turn, staleTurns, summaries, nextId, turnCount, uploads, ended,
                   sumLog, errTurns, pureVars, propsVars>>

\* handleStartAnalysis up to its await of performInitialAnalysis.
handleStartAnalysis ==
    /\ StreamUi
    /\ appState = "showing_suggestions"
    /\ IF currentFile = Null
       THEN /\ error' = Payload("Erro de Aplicacao",
                    <<"Nenhum arquivo encontrado para analise. Por favor, reinicie o processo.">>)
            /\ appState' = "error"
            /\ UNCHANGED task
       ELSE /\ appState' = "loading-analysis"
            /\ error' = Null
            /\ task' = [kind |-> "analysis", file |-> currentFile]
    /\ UNCHANGED <<app, currentFile, preAnalysisResult, analysisResult, chatVars,
                   crashed, epoch, turn, staleTurns, summaries, nextId, turnCount,
                   uploads, histVars, pureVars, propsVars>>

\* performInitialAnalysis settles; on success App shows the chat, which
\* mounts a ChatInterface seeded with the result.
InitialAnalysisSettles ==
    /\ StreamUi
    /\ task.kind = "analysis"
    /\ \E reply \in {NoReply} \cup AnalysisReplies :
          LET r == IF reply = NoReply THEN Throws(FileReadError) ELSE callGemini(reply)
          IN IF r.ok
             THEN /\ analysisResult' = r.value
                  /\ appState' = "chat"
                  /\ MountChat(r.value)
                  /\ UNCHANGED error
             ELSE /\ error' = analysisErrorPayload(r.error)
                  /\ appState' = "error"
                  /\ failure' = Failed("callGemini", reply, r.error)
                  /\ UNCHANGED <<analysisResult, chatVars, epoch, ended, sumLog,
                                 errTurns>>
    /\ task' = NoTask
    /\ UNCHANGED <<app, currentFile, preAnalysisResult, crashed, turn, staleTurns,
                   summaries, nextId, turnCount, uploads, pureVars, propsVars>>

\* handleReset (the chat's "Analisar outro arquivo", the error view's retry)
handleReset ==
    /\ StreamUi
    /\ appState \in {"chat", "error"}
    /\ appState' = "pre-analysis"
    /\ analysisResult' = Null
    /\ preAnalysisResult' = Null
    /\ currentFile' = Null
    /\ error' = Null
    /\ UnmountChat
    /\ UNCHANGED <<app, crashed, epoch, task, summaries, nextId, turnCount, uploads,
                   pureVars, propsVars>>

-----------------------------------------------------------------------------
(* ChatInterface of the streaming generation (components/ChatInterface.tsx) *)

\* (a submitQuery that awaits the summarization it starts before it asks)
pcAfterMemory_awaitsSummary(summarizing) ==
    IF summarizing THEN "awaitingSummary" ELSE "opening"

\* Where submitQuery stands after the memory optimization: the promise of
\* summarizeConversation only gets a .then, and the next statement awaits
\* getChatResponseStream, which has been called by then.
pcAfterMemory(summarizing) == "opening"

\* submitQuery up to its first await.
submitQuery(query) ==
    /\ ChatMounted
    /\ turnCount < MaxTurns
    /\ ~(trim(query) = "" \/ isLoading)
    /\ LET userMessage == Msg("user-" \o ToString(nextId), "user", query, NoResult, FALSE, FALSE)
           agentTypingId == "agent-typing-" \o ToString(nextId)
           agentTypingMessage == Msg(agentTypingId, "agent", "", NoResult, TRUE, FALSE)
           currentMessages == Append(messages, userMessage)
           validMessages == withoutTyping(currentMessages)
           summarizing == overLimit(validMessages)
       IN /\ messages' = messages \o <<userMessage, agentTypingMessage>>
          /\ isLoading' = TRUE
          /\ summaries' =
                IF summarizing
                THEN summaries \cup {[id |-> nextId, epoch |-> epoch,
                                      text |-> textToSummarize(validMessages)]}
                ELSE summaries
          /\ turn' = [pc |-> pcAfterMemory(summarizing),
                      id |-> nextId,
                      agentTypingId |-> agentTypingId,
                      query |-> query,
                      historyForPrompt |-> historyForPrompt(validMessages),
                      summaryForPrompt |-> summaryForPrompt(validMessages, conversationSummary),
                      fullHistoryText |-> fullHistoryText(validMessages),
                      summaryAtStart |-> conversationSummary,
                      before |-> messages,
                      userMessage |-> userMessage,
                      stream |-> <<>>,
                      read |-> 0,
                      accumulatedJson |-> ""]
    /\ nextId' = nextId + 1
    /\ turnCount' = turnCount + 1
    /\ ended' = NoEnded
    /\ failure' = NoFailure
    /\ UNCHANGED <<appVars, conversationSummary, crashed, epoch, task, staleTurns,
                   uploads, sumLog, errTurns, pureVars, propsVars>>

\* The record of a chat turn that has ended.
Ended(how, after) ==
    [how |-> how, id |-> turn.id, before |-> turn.before,
     userMessage |-> turn.userMessage, after |-> after]

\* catch and finally of submitQuery
FailTurn(e, path, reply) ==
    LET notPlaceholder(m) == m.id # turn.agentTypingId
        errorMessage == Msg("agent-error-" \o ToString(nextId), "agent",
                            errorMessageText(e), NoResult, FALSE, TRUE)
        after == SelectSeq(messages, notPlaceholder) \o <<errorMessage>>
    IN /\ messages' = after
       /\ isLoading' = FALSE
       /\ nextId' = nextId + 1
       /\ errTurns' = errTurns + 1
       /\ failure' = Failed(path, reply, e)
       /\ ended' = Ended("error", after)
       /\ turn' = NoTurn
       /\ UNCHANGED <<appVars, conversationSummary, crashed, epoch, task, staleTurns,
                      summaries, turnCount, uploads, sumLog, pureVars, propsVars>>

\* getChatResponseStream resolves with the generator.
StreamOpens ==
    /\ ChatMounted
    /\ turn.pc = "opening"
    /\ \E doc \in StreamDocs : turn' = [turn EXCEPT !.pc = "streaming", !.stream = doc]
    /\ UNCHANGED <<appVars, chatVars, crashed, epoch, task, staleTurns, summaries,
                   nextId, turnCount, uploads, histVars, pureVars, propsVars>>

\* getChatResponseStream rejects: with what fileToText rejected with, or with
\* the GeminiApiError its catch block makes of the failure of callApiWithRetry.
StreamOpenFails ==
    /\ ChatMounted
    /\ turn.pc = "opening"
    /\ \/ FailTurn(FileReadError, "getChatResponseStream", NoReply)
       \/ \E sdk \in SdkErrors :
             FailTurn(mapGeminiError(sdk, "Falha ao obter analise do Gemini. Causa: "),
                      "getChatResponseStream", Reject(sdk))

\* (an updater that ends the typing mode as soon as the text parses)
chunkUpdater_finalWhenParsed(prev, agentTypingId, partialResult) ==
    [i \in 1..Len(prev) |->
        IF prev[i].id = agentTypingId
        THEN [prev[i] EXCEPT !.isTyping = (partialResult = NoResult),
                             !.text = StreamAgentText,
                             !.analysisResult = partialResult]
        ELSE prev[i]]

\* The setMessages updater of one chunk: the placeholder stays in typing
\* mode and shows what has been parsed so far.
chunkUpdater(prev, agentTypingId, partialResult) ==
    [i \in 1..Len(prev) |->
        IF prev[i].id = agentTypingId
        THEN [prev[i] EXCEPT !.isTyping = TRUE,
                             !.text = StreamAgentText,
                             !.analysisResult = partialResult]
        ELSE prev[i]]

\* One iteration of `for await (const chunk of stream)`.
StreamChunk ==
    /\ ChatMounted
    /\ turn.pc = "streaming"
    /\ turn.read < Len(turn.stream)
    /\ LET accumulatedJson == turn.accumulatedJson \o turn.stream[turn.read + 1]
           parsed == JSONparse(accumulatedJson)
           partialResult == IF parsed.ok THEN parsed.value ELSE NoResult
       IN /\ turn' = [turn EXCEPT !.read = @ + 1, !.accumulatedJson = accumulatedJson]
          /\ messages' = chunkUpdater(messages, turn.agentTypingId, partialResult)
    /\ UNCHANGED <<appVars, isLoading, conversationSummary, crashed, epoch, task,
                   staleTurns, summaries, nextId, turnCount, uploads, histVars,
                   pureVars, propsVars>>

\* The generator throws while it is iterated: nothing maps the error.
StreamThrows ==
    /\ ChatMounted
    /\ turn.pc = "streaming"
    /\ \E e \in SdkErrors : FailTurn(e, "for await", Reject(e))

\* The generator is exhausted: the final setMessages, then finally.  The
\* updater runs when React renders, outside the try block of submitQuery; when
\* its JSON.parse throws, the render throws and React removes the whole tree.
StreamEnds ==
    /\ ChatMounted
    /\ turn.pc = "streaming"
    /\ turn.read = Len(turn.stream)
    /\ LET typingIndex == {i \in 1..Len(messages) : messages[i].id = turn.agentTypingId}
           parsed == JSONparse(turn.accumulatedJson)
           after == [i \in 1..Len(messages) |->
                        IF i \in typingIndex
                        THEN [messages[i] EXCEPT !.isTyping = FALSE,
                                                 !.analysisResult = parsed.value]
                        ELSE messages[i]]
       IN IF typingIndex = {} \/ parsed.ok
          THEN /\ messages' = after
               /\ isLoading' = FALSE
               /\ ended' = Ended("final", after)
               /\ UNCHANGED <<crashed, failure>>
          ELSE /\ crashed' = TRUE
               /\ ended' = Ended("crashed", messages)
               /\ failure' = Failed("setMessages", Resolve(turn.accumulatedJson),
                                    SyntaxError)
               /\ UNCHANGED <<messages, isLoading>>
    /\ turn' = NoTurn
    /\ UNCHANGED <<appVars, conversationSummary, epoch, task, staleTurns, summaries,
                   nextId, turnCount, uploads, sumLog, errTurns, pureVars, propsVars>>

\* The submitQuery call of an unmounted ChatInterface runs to its end: its
\* state updates have no component to act on.
StaleTurnSettles ==
    /\ app = "stream"
    /\ \E id \in staleTurns : staleTurns' = staleTurns \ {id}
    /\ UNCHANGED <<appVars, chatVars, crashed, epoch, task, turn, summaries, nextId,
                   turnCount, uploads, histVars, pureVars, propsVars>>

SummaryLive_always(s) == TRUE

SummaryLive(s) == ChatMounted /\ s.epoch = epoch

\* A summarizeConversation call settles and its .then callback runs.
SummarySettles ==
    /\ \E s \in summaries :
          /\ SummaryLive(s)
          /\ \E reply \in SummaryReplies(s.id) :
                LET newSummary == summarizeConversation(reply) IN
                /\ conversationSummary' = applySummary(conversationSummary, newSummary)
                /\ sumLog' = Append(sumLog,
                        [id |-> s.id,
                         failed |-> ~reply.ok \/ ~JSONparse(trim(reply.value)).ok,
                         newSummary |-> newSummary,
                         alongside |-> {o.id : o \in {x \in summaries \ {s} : SummaryLive(x)}}])
          /\ summaries' = summaries \ {s}
    /\ UNCHANGED <<appVars, messages, isLoading, crashed, epoch, task, turn, staleTurns,
                   nextId, turnCount, uploads, ended, errTurns, failure, pureVars,
                   propsVars>>

\* The same for a call whose ChatInterface is gone.
StaleSummarySettles ==
    /\ \E s \in summaries :
          /\ ~SummaryLive(s)
          /\ summaries' = summaries \ {s}
    /\ UNCHANGED <<appVars, chatVars, crashed, epoch, task, turn, staleTurns, nextId,
                   turnCount, uploads, histVars, pureVars, propsVars>>

StreamNext ==
    \/ \E f \in Files : handlePreAnalysis(f)
    \/ ZipLoaded
    \/ PreAnalysisSettles
    \/ handleStartAnalysis
    \/ InitialAnalysisSettles
    \/ handleReset
    \/ \E query \in Queries : submitQuery(query)
    \/ StreamOpens
    \/ StreamOpenFails
    \/ StreamChunk
    \/ StreamThrows
    \/ StreamEnds
    \/ StaleTurnSettles
    \/ SummarySettles
    \/ StaleSummarySettles

-----------------------------------------------------------------------------
(* App.tsx with the ChatInterface of components/AnalysisDisplay.tsx         *)

MaxReloads == 1
MaxQuestions == 3

\* A CSV text is the sequence of its lines (what split(/\r?\n/) cuts it
\* into), each line the sequence of its cells (what split(',') cuts it into,
\* never empty); <<>> is the empty text.

\* cell.trim().replace(/"/g, '')
cleanCell(cell) ==
    LET trimmed == trim(cell)
    IN CASE trimmed = "\" 5\"" -> " 5"
         [] OTHER -> trimmed

\* csvData.trim().split(/\r?\n/): trim takes the whitespace-only lines off
\* both ends of the text, and split gives one empty line for an empty text.
trimEnd_none(text) == text

RECURSIVE trimEnd(_)
trimEnd(text) ==
    IF text = <<>> THEN <<>>
    ELSE LET last == text[Len(text)]
         IN IF Len(last) = 1 /\ trim(last[1]) = ""
            THEN trimEnd(SubSeq(text, 1, Len(text) - 1))
            ELSE text

RECURSIVE trimStart(_)
trimStart(text) ==
    IF text = <<>> THEN <<>>
    ELSE IF Len(Head(text)) = 1 /\ trim(Head(text)[1]) = ""
         THEN trimStart(Tail(text))
         ELSE text

splitLines_untrimmed(text) == IF text = <<>> THEN << <<"">> >> ELSE text

splitLines(text) ==
    LET trimmed == trimStart(trimEnd(text))
    IN IF trimmed = <<>> THEN << <<"">> >> ELSE trimmed

\* val === null || val === undefined || val.trim() === ''
blank(val) == val = Null \/ val = Undefined \/ trim(val.str) = ""

integerPattern_unsigned(value) == value \in {"1", "5", "150", "200"}

\* /^-?\d+$/.test(value)
integerPattern(value) == value \in {"1", "-3", "5", "150", "200"}

\* !isNaN(Date.parse(v)): an ISO date parses on every engine; what a plain
\* numeral gives is left to the engine.
parsesAsDate(v) ==
    CASE v = "2024-01-01" -> TRUE
      [] v \in {"1", "-3", "1.5", " 5"} -> dateParseLenient
      [] OTHER -> FALSE

\* /^\d{4}-\d{2}-\d{2}/.test(v)
isoDatePrefix(v) == v = "2024-01-01"

\* The for loop of detectColumnType from its i-th value on: isNumeric and
\* isInteger as the loop leaves them (it breaks at the first value that is
\* not a number).
RECURSIVE scanSample(_, _, _)
scanSample(sample, i, isInteger) ==
    IF i > Len(sample)
    THEN [isNumeric |-> TRUE, isInteger |-> isInteger]
    ELSE IF isNaN(Number(sample[i]))
    THEN [isNumeric |-> FALSE, isInteger |-> isInteger]
    ELSE scanSample(sample, i + 1, isInteger /\ integerPattern(sample[i].str))

detectColumnType(values) ==
    IF \A i \in 1..Len(values) : blank(values[i]) THEN "EMPTY"
    ELSE LET notBlank(v) == ~blank(v)
             sample == SelectSeq(values, notBlank)
             scanned == scanSample(sample, 1, TRUE)
         IN IF Len(sample) = 0 THEN "EMPTY"
            ELSE IF scanned.isNumeric
            THEN (IF scanned.isInteger THEN "INTEGER" ELSE "FLOAT")
            ELSE IF \A i \in 1..Len(sample) :
                        parsesAsDate(sample[i].str) \/ isoDatePrefix(sample[i].str)
            THEN "DATE"
            ELSE "STRING"

\* profileData: the profile of the text (the jsonData it returns with it is
\* never read by handleFileSelect), or the Error it throws when no line
\* follows the header.
profileData(text) ==
    LET lines == splitLines(text)
        header == [i \in 1..Len(lines[1]) |-> cleanCell(lines[1][i])]
        rows == [r \in 1..(Len(lines) - 1) |->
                    [i \in 1..Len(lines[r + 1]) |-> cleanCell(lines[r + 1][i])]]
        colValues(index) ==
            [r \in 1..Len(rows) |->
                IF index <= Len(rows[r]) THEN Str(rows[r][index]) ELSE Undefined]
        missing(index) ==
            Cardinality({r \in 1..Len(rows) : blank(colValues(index)[r])})
    IN IF Len(rows) = 0
       THEN Throws(Err("Error", <<"CSV file has no data rows.">>))
       ELSE Returns([rowCount |-> Len(rows),
                     columnCount |-> Len(header),
                     columns |-> [index \in 1..Len(header) |->
                                    [name |-> header[index],
                                     type |-> detectColumnType(colValues(index)),
                                     missing |-> missing(index)]]])

\* Uploaded files: a CSV of three data rows in two columns, and one of a
\* header only.
PropsFiles ==
    { [name |-> "data.csv",
       text |-> << <<"id", "v">>, <<"1", "a">>, <<"-3", "">>, <<"1", "a">> >>],
      [name |-> "header.csv", text |-> << <<"id", "v">> >>] }

\* What getPreAnalysis and getAnalysis of services/geminiService can do, as
\* the contract of the completion client has it: return the parsed result, or
\* throw an error carrying a message, or one carrying none.
PropsResult ==
    [findings |-> <<[insight |-> "i", plot |-> "chart"]>>, suggested_followups |-> <<"q">>]

getPreAnalysisOutcomes ==
    { Returns([summary |-> "s", suggestedQuestions |-> <<"q">>]),
      Throws(GeminiApiError(<<"A cota de uso da ", "API",
                              " foi excedida. Por favor, tente novamente mais tarde.">>)),
      Throws(Err("Error", <<>>)) }

getAnalysisOutcomes ==
    { Returns(PropsResult),
      Throws(GeminiApiError(<<"A cota de uso da ", "API",
                              " foi excedida. Por favor, tente novamente mais tarde.">>)),
      Throws(Err("Error", <<>>)) }

\* The message of an error as one string.
RECURSIVE messageString(_)
messageString(message) ==
    IF Len(message) = 0 THEN "" ELSE Head(message) \o messageString(Tail(message))

PropsAgentText == "Aqui esta a analise para sua pergunta:"
PropsErrorText ==
    "Desculpe, nao consegui processar sua solicitacao. Por favor, tente novamente."

getHistoryKey(name) == "chatHistory_" \o name

\* localStorage.setItem / removeItem / getItem (null is the empty list here:
\* handleFileSelect treats a missing history and an empty one alike)
setItem(store, key, value) ==
    [k \in DOMAIN store \cup {key} |-> IF k = key THEN value ELSE store[k]]
\* (a removeItem that leaves the entry where it is)
removeItem_keeps(store, key) == store

removeItem(store, key) == [k \in DOMAIN store \ {key} |-> store[k]]
getChatHistory(store, key) == IF key \in DOMAIN store THEN store[key] ELSE <<>>

\* The effect that follows a render in which messages or fileName changed:
\* JSON.stringify keeps every field a message of the model has.
saveChatHistory(store, name, msgs) ==
    IF name # "" /\ Len(msgs) > 0 THEN setItem(store, getHistoryKey(name), msgs) ELSE store

fileErrorPayload_none(e) == Null

\* catch block of handleFileSelect
fileErrorPayload(e) ==
    Payload(IF e.title # NoTitle THEN e.title ELSE "Erro ao Processar Arquivo",
            IF Len(e.message) > 0 THEN e.message
            ELSE <<"Houve um problema ao ler ou analisar seu arquivo. Verifique se e um CSV valido e tente novamente.">>)

PropsUi == app = "props"

streamOnlyVars == <<currentFile, preAnalysisResult, analysisResult, isLoading,
                    conversationSummary, crashed, turn, staleTurns, summaries, sumLog,
                    failure>>

\* The state updates of resetState, the history key excepted.
ResetFields ==
    /\ file' = Null
    /\ csvData' = <<>>
    /\ dataProfile' = Null
    /\ preAnalysis' = Null
    /\ isProcessing' = FALSE
    /\ error' = Null
    /\ epoch' = epoch + 1
    /\ ended' = NoEnded
    /\ errTurns' = 0

\* handleFileSelect up to its first await: resetState, then the file's name.
handleFileSelect(selectedFile) ==
    /\ PropsUi
    /\ appState = "PRE_ANALYSIS"
    /\ file = Null
    /\ ~(preAnalysis # Null /\ fileName # "")
    /\ uploads < MaxUploads
    /\ uploads' = uploads + 1
    /\ ResetFields
    /\ messages' = <<>>
    /\ fileName' = selectedFile.name
    /\ appState' = "LOADING"
    /\ localStorage' =
          IF fileName # "" THEN removeItem(localStorage, getHistoryKey(fileName))
          ELSE localStorage
    /\ task' = [kind |-> "text", file |-> selectedFile]
    /\ UNCHANGED <<app, streamOnlyVars, nextId, turnCount, turns, reloads, pureVars>>

\* selectedFile.text() has resolved: the profile, then the saved history of
\* that file name if there is one, else the call of getPreAnalysis.
FileTextLoaded ==
    /\ PropsUi
    /\ task.kind = "text"
    /\ csvData' = task.file.text
    /\ LET profiled == profileData(task.file.text)
           savedHistory == getChatHistory(localStorage, getHistoryKey(task.file.name))
       IN IF ~profiled.ok
          THEN /\ error' = fileErrorPayload(profiled.error)
               /\ appState' = "ERROR"
               /\ task' = NoTask
               /\ UNCHANGED <<dataProfile, messages, localStorage>>
          ELSE /\ dataProfile' = profiled.value
               /\ UNCHANGED error
               /\ IF Len(savedHistory) > 0
                  THEN /\ messages' = savedHistory
                       /\ appState' = "CHAT"
                       /\ task' = NoTask
                       /\ localStorage' = saveChatHistory(localStorage, fileName, savedHistory)
                  ELSE /\ task' = [kind |-> "getPreAnalysis", file |-> task.file]
                       /\ UNCHANGED <<messages, appState, localStorage>>
    /\ UNCHANGED <<app, streamOnlyVars, epoch, nextId, turnCount, uploads, ended, errTurns,
                   file, fileName, preAnalysis, isProcessing, turns, reloads, pureVars>>

\* getPreAnalysis settles.
GetPreAnalysisSettles ==
    /\ PropsUi
    /\ task.kind = "getPreAnalysis"
    /\ \E r \in getPreAnalysisOutcomes :
          IF r.ok
          THEN /\ preAnalysis' = r.value
               /\ appState' = "PRE_ANALYSIS"
               /\ file' = task.file
               /\ UNCHANGED error
          ELSE /\ error' = fileErrorPayload(r.error)
               /\ appState' = "ERROR"
               /\ UNCHANGED <<preAnalysis, file>>
    /\ task' = NoTask
    /\ UNCHANGED <<app, streamOnlyVars, messages, epoch, nextId, turnCount, uploads,
                   ended, errTurns, fileName, csvData, dataProfile, isProcessing,
                   localStorage, turns, reloads, pureVars>>

HasFollowups(m) ==
    m.analysisResult # NoResult /\ Len(m.analysisResult.suggested_followups) > 0
HasPlot(m) ==
    m.analysisResult # NoResult /\ Len(m.analysisResult.findings) > 0

\* Where the user can submit a question from: the questions of the
\* pre-analysis view, the form of the chat (its input and button are disabled
\* while isProcessing), a suggested follow-up of a rendered result, a data
\* point of a rendered chart.
CanSubmit(via) ==
    CASE via = "question"   -> appState = "PRE_ANALYSIS" /\ preAnalysis # Null /\ fileName # ""
      [] via = "typed"      -> appState = "CHAT" /\ ~isProcessing
      [] via = "suggestion" -> appState = "CHAT"
                               /\ \E i \in 1..Len(messages) : HasFollowups(messages[i])
      [] via = "drillDown"  -> appState = "CHAT"
                               /\ \E i \in 1..Len(messages) : HasPlot(messages[i])

Entries == {"question", "typed", "suggestion", "drillDown"}

\* handleSendMessage of App.tsx up to its await of getAnalysis.
handleSendMessage(question, via) ==
    /\ PropsUi
    /\ CanSubmit(via)
    /\ turnCount < MaxQuestions
    /\ LET userMessage == Msg(ToString(nextId) \o "-user", "user", question,
                              NoResult, FALSE, FALSE)
           currentMessages == withoutTyping(messages)
           agentTypingMessage == Msg(ToString(nextId) \o "-agent", "agent", "",
                                     NoResult, TRUE, FALSE)
           shown == currentMessages \o <<userMessage, agentTypingMessage>>
       IN /\ messages' = shown
          /\ localStorage' = saveChatHistory(localStorage, fileName, shown)
          /\ turns' = turns \cup {[id |-> nextId, agentTypingId |-> agentTypingMessage.id,
                                   epoch |-> epoch, before |-> messages,
                                   userMessage |-> userMessage]}
    /\ appState' = "CHAT"
    /\ isProcessing' = TRUE
    /\ nextId' = nextId + 1
    /\ turnCount' = turnCount + 1
    /\ UNCHANGED <<app, error, streamOnlyVars, epoch, task, uploads, ended, errTurns,
                   file, fileName, csvData, dataProfile, preAnalysis, reloads, pureVars>>

\* getAnalysis settles for one of the calls in flight: try, catch, finally.
GetAnalysisSettles ==
    /\ PropsUi
    /\ \E t \in turns, r \in getAnalysisOutcomes :
          LET agentMessage ==
                  IF r.ok
                  THEN Msg(t.agentTypingId, "agent", PropsAgentText, r.value, FALSE, FALSE)
                  ELSE Msg(t.agentTypingId, "agent",
                           IF Len(r.error.message) > 0 THEN messageString(r.error.message)
                           ELSE PropsErrorText,
                           NoResult, FALSE, TRUE)
              after == [i \in 1..Len(messages) |->
                          IF messages[i].id = t.agentTypingId THEN agentMessage
                          ELSE messages[i]]
          IN /\ messages' = after
             /\ localStorage' = saveChatHistory(localStorage, fileName, after)
             /\ turns' = turns \ {t}
             /\ IF t.epoch = epoch
                THEN /\ ended' = [how |-> IF r.ok THEN "final" ELSE "error", id |-> t.id,
                                  before |-> t.before, userMessage |-> t.userMessage,
                                  after |-> after]
                     /\ errTurns' = IF r.ok THEN errTurns ELSE errTurns + 1
                ELSE UNCHANGED <<ended, errTurns>>
    /\ isProcessing' = FALSE
    /\ UNCHANGED <<appVars, streamOnlyVars, epoch, task, nextId, turnCount, uploads,
                   file, fileName, csvData, dataProfile, preAnalysis, reloads, pureVars>>

\* resetState ("Nova Analise" of the chat, the retry of the error view)
resetState ==
    /\ PropsUi
    /\ appState \in {"CHAT", "ERROR"}
    /\ ResetFields
    /\ appState' = "PRE_ANALYSIS"
    /\ fileName' = ""
    /\ messages' = <<>>
    /\ localStorage' =
          IF fileName # "" THEN removeItem(localStorage, getHistoryKey(fileName))
          ELSE localStorage
    /\ UNCHANGED <<app, streamOnlyVars, task, nextId, turnCount, uploads, turns,
                   reloads, pureVars>>

\* The page is loaded again: App starts from its initial state, what is in
\* localStorage stays, and the calls of the old page are gone.
Reload ==
    /\ PropsUi
    /\ reloads < MaxReloads
    /\ reloads' = reloads + 1
    /\ ResetFields
    /\ appState' = "PRE_ANALYSIS"
    /\ fileName' = ""
    /\ messages' = <<>>
    /\ task' = NoTask
    /\ turns' = {}
    /\ UNCHANGED <<app, streamOnlyVars, nextId, turnCount, uploads, localStorage,
                   pureVars>>

PropsNext ==
    \/ \E selectedFile \in PropsFiles : handleFileSelect(selectedFile)
    \/ FileTextLoaded
    \/ GetPreAnalysisSettles
    \/ \E via \in Entries :
          handleSendMessage(CASE via = "suggestion" -> "q"
                              [] via = "drillDown"  -> "Poderia me dar mais detalhes?"
                              [] OTHER              -> "trend?", via)
    \/ GetAnalysisSettles
    \/ resetState
    \/ Reload

Next == StreamNext \/ PropsNext

Spec == Init /\ [][Next]_vars

\* The same with the scheduling the runtime gives: a call that is awaited
\* settles, and the code after the await runs. The stream of a chat turn
\* opens or fails to open, each chunk of it arrives, and it ends or throws;
\* getAnalysis resolves or rejects.
TurnProgress == StreamOpens \/ StreamOpenFails \/ StreamChunk \/ StreamThrows \/ StreamEnds

SpecLive == Spec /\ WF_vars(TurnProgress) /\ WF_vars(GetAnalysisSettles)

-----------------------------------------------------------------------------
(* The memory optimization on longer transcripts (SpecMemory)               *)
(*                                                                          *)
(* A mounted ChatInterface whose transcript holds up to MaxPastTurns        *)
(* finished turns, with no call in flight and an empty rolling summary      *)
(* (every earlier summarization has failed); the one step is submitQuery.   *)

MaxPastTurns == 3

LongText == Pad(1900)

\* What a finished turn was: its question, and whether it failed.
PastTurns == {[text |-> t, failed |-> f] : t \in {"trend?", LongText}, f \in BOOLEAN}

ParsedAnalysis == JSONparse(AnalysisJson).value

\* The transcript left by the finished turns `past`, the first of which took
\* its ids from the clock value `id`; a failed turn reads the clock twice.
RECURSIVE transcriptOf(_, _)
transcriptOf(past, id) ==
    IF Len(past) = 0 THEN <<>>
    ELSE LET p == Head(past) IN
         << Msg("user-" \o ToString(id), "user", p.text, NoResult, FALSE, FALSE),
            IF p.failed
            THEN Msg("agent-error-" \o ToString(id + 1), "agent", UnexpectedText,
                     NoResult, FALSE, TRUE)
            ELSE Msg("agent-typing-" \o ToString(id), "agent", StreamAgentText,
                     ParsedAnalysis, FALSE, FALSE) >>
         \o transcriptOf(Tail(past), IF p.failed THEN id + 2 ELSE id + 1)

RECURSIVE clockAfter(_, _)
clockAfter(past, id) ==
    IF Len(past) = 0 THEN id
    ELSE clockAfter(Tail(past), IF Head(past).failed THEN id + 2 ELSE id + 1)

InitMemory ==
    /\ apiScript = <<>>
    /\ apiCalls = 0
    /\ attempt = 0
    /\ lastError = NoError
    /\ waits = <<>>
    /\ retryPc = "idle"
    /\ retryOut = NoValue
    /\ app = "stream"
    /\ appState = "chat"
    /\ error = Null
    /\ currentFile = [name |-> "data.csv", kind |-> "csv"]
    /\ preAnalysisResult = JSONparse(PreAnalysisJson).value
    /\ analysisResult = ParsedAnalysis
    /\ \E n \in 0..MaxPastTurns : \E past \in [1..n -> PastTurns] :
          /\ messages = initialMessages(ParsedAnalysis) \o transcriptOf(past, 1)
          /\ nextId = clockAfter(past, 1)
          /\ errTurns = Cardinality({i \in 1..n : past[i].failed})
    /\ failure = NoFailure
    /\ isLoading = FALSE
    /\ conversationSummary = ""
    /\ crashed = FALSE
    /\ epoch = 1
    /\ task = NoTask
    /\ turn = NoTurn
    /\ staleTurns = {}
    /\ summaries = {}
    /\ turnCount = 0
    /\ uploads = 1
    /\ ended = NoEnded
    /\ sumLog = <<>>
    /\ file = Null
    /\ fileName = ""
    /\ csvData = <<>>
    /\ dataProfile = Null
    /\ preAnalysis = Null
    /\ isProcessing = FALSE
    /\ localStorage = [key \in {} |-> <<>>]
    /\ turns = {}
    /\ reloads = 0
    /\ NormIdle

NextMemory == \E query \in Queries : submitQuery(query)

SpecMemory == InitMemory /\ [][NextMemory]_vars

-----------------------------------------------------------------------------
(* The post-processing of plot tables on its own: a parsed response goes    *)
(* through the second try block of callGemini and through the conversion    *)
(* of submitQuery, and what comes out goes through them again.              *)

MaxPasses == 2

\* The cells the completion service may send: labels, numbers as text (bare
\* and padded), empty and blank text, the text Infinity, null and a number.
Cells ==
    { Str("Jan"), Str("Feb"), Str("150"), Str("200"), Str(" 200 "), Str(""), Str(" "),
      Str("Infinity"), Null, Num(7) }

\* Tables: a header row (the second one with a number for a name) and one
\* data row, of two cells or one cell short, or two data rows.
Tables ==
    LET Headers == { Arr(<<Str("Month"), Str("Sales")>>), Arr(<<Str("Month"), Num(7)>>) }
        Rows == {Arr(<<a, b>>) : a \in Cells, b \in Cells} \cup {Arr(<<a>>) : a \in Cells}
        PairRows ==
            { Arr(<<Str("Jan"), Str("150")>>), Arr(<<Str("Feb"), Str("200")>>),
              Arr(<<Str("Feb"), Str(" ")>>), Arr(<<Null, Num(7)>>) }
    IN {Arr(<<h, r>>) : h \in Headers, r \in Rows}
          \cup {Arr(<<h, r1, r2>>) : h \in Headers, r1 \in PairRows, r2 \in PairRows}

\* Row objects, as a response that has been post-processed carries them.
RowObjects ==
    Arr(<<Obj([Month |-> Str("Jan"), Sales |-> Num(150)]),
          Obj([Month |-> Str("Feb"), Sales |-> Str("200")])>>)

\* What plot.data may be: a table, nothing at all, null, a text, an empty
\* array, a header without rows, an array of texts, a table with a null row,
\* row objects.
PlotData ==
    Tables \cup
    { Undefined, Null, Str("n/a"), Arr(<<>>),
      Arr(<<Arr(<<Str("Month"), Str("Sales")>>)>>),
      Arr(<<Str("Month"), Str("Sales")>>),
      Arr(<<Arr(<<Str("Month"), Str("Sales")>>), Null>>),
      RowObjects }

\* The table of the second finding of every response.
MonthlySales ==
    Arr(<<Arr(<<Str("Month"), Str("Sales")>>),
          Arr(<<Str("Jan"), Str("150")>>),
          Arr(<<Str("Feb"), Str("200")>>)>>)

\* Parsed responses: a finding without a plot or with one of the plots, whose
\* data_keys name the columns Month and Sales or a column Revenue that no
\* table has, and a second finding with the monthly sales.
ParsedResults ==
    LET Plot(data, y) == Obj([chart_type |-> "bar", title |-> "t", data |-> data,
                              data_keys |-> [x |-> "Month", y |-> <<y>>]])
        Finding(insight, plot) == [insight |-> insight, plot |-> plot]
    IN { [findings |-> <<Finding("a", plot), Finding("b", Plot(MonthlySales, "Sales"))>>,
          suggested_followups |-> <<"q">>] :
            plot \in {Undefined, Null}
                        \cup {Plot(data, y) : data \in PlotData, y \in {"Sales", "Revenue"}} }

InitNormalize ==
    /\ apiScript = <<>>
    /\ apiCalls = 0
    /\ attempt = 0
    /\ lastError = NoError
    /\ waits = <<>>
    /\ retryPc = "idle"
    /\ retryOut = NoValue
    /\ app = "none"
    /\ appState = "none"
    /\ SessionIdle
    /\ dateParseLenient = TRUE
    /\ parsedResult \in ParsedResults
    /\ viaCallGemini = <<>>
    /\ viaSubmitQuery = <<>>

\* What the next pass works on: the parsed response, or what the pass before
\* returned.
passInput(passes) ==
    IF passes = <<>> THEN parsedResult ELSE passes[Len(passes)].value

canPass(passes) ==
    /\ Len(passes) < MaxPasses
    /\ passes # <<>> => passes[Len(passes)].ok

\* The second try block of callGemini runs.
CallGeminiPostProcesses ==
    /\ parsedResult # Null
    /\ canPass(viaCallGemini)
    /\ viaCallGemini' = Append(viaCallGemini, postProcess(passInput(viaCallGemini)))
    /\ UNCHANGED <<parsedResult, viaSubmitQuery, retryVars, sessionVars, dateParseLenient>>

\* The post-processing of submitQuery runs.
SubmitQueryPostProcesses ==
    /\ parsedResult # Null
    /\ canPass(viaSubmitQuery)
    /\ viaSubmitQuery' = Append(viaSubmitQuery, streamPostProcess(passInput(viaSubmitQuery)))
    /\ UNCHANGED <<parsedResult, viaCallGemini, retryVars, sessionVars, dateParseLenient>>

NextNormalize == CallGeminiPostProcesses \/ SubmitQueryPostProcesses

SpecNormalize == InitNormalize /\ [][NextNormalize]_vars

-----------------------------------------------------------------------------
(* The profiler on its own: App.tsx has called selectedFile.text() on an     *)
(* uploaded CSV, and the text resolves (SpecProfile)                         *)

MaxDataLines == 3

\* The texts uploaded: empty, whitespace only, or a header of two columns and
\* up to MaxDataLines lines after it, with or without a final newline. The
\* lines are rows of an integer and any cell, a short row, an empty line, a
\* row whose first cell is empty and a long row.
CsvTexts ==
    LET RawCells == {"1", "-3", "1.5", "a", "", " ", "2024-01-01", "\" 5\""}
        CsvLines == {<<"1", c>> : c \in RawCells}
                       \cup {<<"1">>, <<"">>, <<"", "a">>, <<"1", "a", "1">>}
        Bodies == UNION {[1..n -> CsvLines] : n \in 0..MaxDataLines}
    IN {<<>>, << <<" ">> >>}
         \cup {<< <<"id", "v">> >> \o body \o end :
                   body \in Bodies, end \in {<<>>, << <<"">> >>}}

InitProfile ==
    /\ apiScript = <<>>
    /\ apiCalls = 0
    /\ attempt = 0
    /\ lastError = NoError
    /\ waits = <<>>
    /\ retryPc = "idle"
    /\ retryOut = NoValue
    /\ app = "props"
    /\ appState = "LOADING"
    /\ error = Null
    /\ currentFile = Null
    /\ preAnalysisResult = Null
    /\ analysisResult = Null
    /\ messages = <<>>
    /\ isLoading = FALSE
    /\ conversationSummary = ""
    /\ crashed = FALSE
    /\ epoch = 0
    /\ \E text \in CsvTexts : task = [kind |-> "text", file |-> [name |-> "data.csv", text |-> text]]
    /\ turn = NoTurn
    /\ staleTurns = {}
    /\ summaries = {}
    /\ nextId = 1
    /\ turnCount = 0
    /\ uploads = 1
    /\ ended = NoEnded
    /\ sumLog = <<>>
    /\ errTurns = 0
    /\ failure = NoFailure
    /\ file = Null
    /\ fileName = "data.csv"
    /\ csvData = <<>>
    /\ dataProfile = Null
    /\ preAnalysis = Null
    /\ isProcessing = FALSE
    /\ localStorage = [key \in {} |-> <<>>]
    /\ turns = {}
    /\ reloads = 0
    /\ dateParseLenient \in BOOLEAN
    /\ parsedResult = Null
    /\ viaCallGemini = <<>>
    /\ viaSubmitQuery = <<>>

NextProfile == FileTextLoaded

SpecProfile == InitProfile /\ [][NextProfile]_vars

-----------------------------------------------------------------------------
(* Properties of callApiWithRetry, checked under SpecRetry *)

\* The rate-limit / quota class of failures, named independently of the code's
\* test: an Error whose message carries 429 or the word quota.
QuotaClassErrors ==
    { Err("Error", <<"429", " Too Many Requests">>),
      Err("Error", <<"You exceeded your current ", "quota">>),
      Err("Error", <<"Quota", " exceeded">>) }

QuotaFailure(outcome) == ~outcome.ok /\ outcome.error \in QuotaClassErrors
OtherFailure(outcome) == ~outcome.ok /\ outcome.error \notin QuotaClassErrors

RetryDone == retryPc \in {"returned", "thrown"}

\* C3: an attempt that fails with an error that is not quota-class is the last
\* attempt: no further invocation, no wait after it, and that same error is
\* raised; if it is the first attempt the underlying call ran exactly once.
C3_NonQuotaFailsAtOnce ==
    \A i \in 1..apiCalls :
        OtherFailure(apiScript[i]) =>
            /\ apiCalls = i
            /\ retryPc = "thrown"
            /\ retryOut = apiScript[i].error
            /\ Len(waits) = i - 1

C3_Witness ==
    /\ apiCalls = 2
    /\ QuotaFailure(apiScript[1])
    /\ OtherFailure(apiScript[2])
    /\ retryPc = "thrown"

\* C4: k quota-class failures (k = 0, 1, 2) followed by a success are exactly
\* k + 1 invocations, and the successful result is returned.
C4_QuotaThenSuccess ==
    \A k \in 0..2 :
        ( /\ \A i \in 1..k : QuotaFailure(apiScript[i])
          /\ apiScript[k + 1].ok )
        => /\ apiCalls <= k + 1
           /\ RetryDone => /\ apiCalls = k + 1
                           /\ retryPc = "returned"
                           /\ retryOut = apiScript[k + 1].value

C4_Witness ==
    /\ QuotaFailure(apiScript[1])
    /\ QuotaFailure(apiScript[2])
    /\ apiScript[3].ok
    /\ apiCalls = 3
    /\ retryPc = "returned"
    /\ retryOut = "response2"

\* C5: when every attempt fails with a quota-class error the underlying call
\* is invoked exactly 3 times, never a fourth, and the third error is raised.
C5_QuotaExhausted ==
    (\A i \in 1..3 : QuotaFailure(apiScript[i]))
    => /\ apiCalls <= 3
       /\ RetryDone => /\ apiCalls = 3
                       /\ retryPc = "thrown"
                       /\ retryOut = apiScript[3].error

C5_Witness ==
    /\ \A i \in 1..3 : QuotaFailure(apiScript[i])
    /\ apiScript[3].error # apiScript[1].error
    /\ apiScript[3].error # apiScript[2].error
    /\ retryPc = "thrown"
    /\ apiCalls = 3

\* C6: the wait after failed attempt a is 2000 * 2^a plus a jitter in
\* [0, 1000): the first wait is in [2000, 3000), the second in [4000, 5000),
\* and no wait is shorter than the one before it.
C6_BackoffWindows ==
    /\ Len(waits) <= 2
    /\ Len(waits) >= 1 => (waits[1] >= 2000 /\ waits[1] < 3000)
    /\ Len(waits) >= 2 => (waits[2] >= 4000 /\ waits[2] < 5000)
    /\ \A i \in 1..Len(waits) :
          /\ waits[i] >= 2000 * Pow2(i - 1)
          /\ waits[i] <  2000 * Pow2(i - 1) + 1000
          /\ i > 1 => waits[i] >= waits[i - 1]

C6_Witness ==
    /\ Len(waits) = 2
    /\ waits[1] = 2999
    /\ waits[2] = 4000

-----------------------------------------------------------------------------
(* Properties of the conversation memory (streaming ChatInterface)          *)

TurnInFlight == turn.pc # "idle"

\* The summarization started by the chat turn `id` is still pending.
SummaryPendingOf(id) == \E s \in summaries : SummaryLive(s) /\ s.id = id

\* The summaries that summarizations started before the turn `id` can return.
EarlierSummaries(id) == {SummaryOf(j) : j \in 1..(id - 1)}

\* C7: a chat turn never waits for the summarization it starts.  Whenever a
\* turn is in flight, with its summarization pending or not, the call of
\* getChatResponseStream has been made (the turn is waiting for the stream or
\* reading it); the summary in its prompt is taken from the rolling summary
\* held when it began, and is never a summary made by its own summarization
\* or a later one.
C7_TurnNeverWaitsForSummary ==
    TurnInFlight =>
        /\ turn.pc \in {"opening", "streaming"}
        /\ turn.summaryForPrompt \in {"", turn.summaryAtStart}
        /\ turn.summaryForPrompt \in {""} \cup EarlierSummaries(turn.id)

\* A turn has ended with its final answer while its summarization is pending.
C7_Witness ==
    /\ ended.how = "final"
    /\ SummaryPendingOf(ended.id)

\* The rolling summary that the settled summarizations leave: the last of
\* their results that is not empty.
RECURSIVE LastNonEmpty(_)
LastNonEmpty(log) ==
    IF Len(log) = 0 THEN ""
    ELSE IF log[Len(log)].newSummary # "" THEN log[Len(log)].newSummary
    ELSE LastNonEmpty(SubSeq(log, 1, Len(log) - 1))

\* C8 (as the code has it): the rolling summary is the result of the
\* summarization that resolved last among those that returned a non-empty
\* summary, whatever the order in which they were started; one that resolves
\* with the empty string leaves the rolling summary as it is.
C8_LastNonEmptySummaryWins ==
    conversationSummary = LastNonEmpty(sumLog)

\* Two summarizations were in flight together, the one started second
\* resolved first, and the rolling summary is the result of the other.
C8_Witness ==
    /\ Len(sumLog) = 2
    /\ sumLog[2].id \in sumLog[1].alongside
    /\ sumLog[1].id > sumLog[2].id
    /\ sumLog[1].newSummary # ""
    /\ sumLog[2].newSummary # ""
    /\ conversationSummary = sumLog[2].newSummary

\* C8 as stated: when two summarizations were in flight at the same time and
\* both have resolved, the rolling summary is the result of the one that
\* resolved last.
C8_LastResolvedWins ==
    ( /\ Len(sumLog) = 2
      /\ sumLog[2].id \in sumLog[1].alongside
      /\ ~\E s \in summaries : SummaryLive(s) )
    => conversationSummary = sumLog[2].newSummary

IsErrorTurn(m) == m.isError

\* C9: summarizeConversation never raises.  Every settled summarization
\* returned a string, the empty one when its call failed or its response was
\* not JSON; and the error turns of the transcript of the ChatInterface that
\* summarizes are exactly those of the chat turns that failed themselves.
C9_SummarizerNeverRaises ==
    /\ \A i \in 1..Len(sumLog) :
          /\ sumLog[i].newSummary # "(raised)"
          /\ sumLog[i].failed => sumLog[i].newSummary = ""
    /\ \A reply \in SummaryReplies(nextId) :
          (~reply.ok \/ ~JSONparse(trim(reply.value)).ok)
              => summarizeConversation(reply) = ""
    /\ app = "stream" => Len(SelectSeq(messages, IsErrorTurn)) = errTurns

\* A turn ended with its final answer although its summarization failed.
C9_Witness ==
    /\ ended.how = "final"
    /\ \E i \in 1..Len(sumLog) : sumLog[i].id = ended.id /\ sumLog[i].failed

\* C10: when the text of the transcript, the new user turn included, is at
\* most HISTORY_CHAR_LIMIT characters long, the history of the prompt is that
\* text and the summary of the prompt is empty, whatever the rolling summary.
C10_WithinLimitUsesFullTranscript ==
    LET validMessages == withoutTyping(Append(turn.before, turn.userMessage)) IN
    (TurnInFlight /\ Len(joinLines(validMessages)) <= HISTORY_CHAR_LIMIT) =>
        /\ turn.historyForPrompt = joinLines(validMessages)
        /\ turn.summaryForPrompt = ""
        /\ \A summary \in {conversationSummary} \cup EarlierSummaries(nextId) :
              /\ summaryForPrompt(validMessages, summary) = ""
              /\ historyForPrompt(validMessages) = joinLines(validMessages)

\* A turn is in flight whose transcript is exactly at the limit.
C10_Witness ==
    /\ TurnInFlight
    /\ turn.pc = "streaming"
    /\ Len(turn.fullHistoryText) = HISTORY_CHAR_LIMIT
    /\ turn.historyForPrompt = turn.fullHistoryText

-----------------------------------------------------------------------------
(* Properties of the turns of a session                                     *)

\* The primary turns in flight in the session: the pre-analysis or initial
\* analysis, the chat question of the streaming ChatInterface, the questions
\* sent through handleSendMessage since the last resetState.
PrimaryTurnsInFlight ==
    (IF task.kind # "none" THEN 1 ELSE 0)
    + (IF turn.pc # "idle" THEN 1 ELSE 0)
    + Cardinality({t \in turns : t.epoch = epoch})

\* C1: at most one primary turn is in flight at any time in a session,
\* whichever entry point submits the question.
C1_AtMostOnePrimaryTurn == PrimaryTurnsInFlight <= 1

\* C2: when a chat turn has ended, by success or by failure, the transcript
\* is the transcript from before the turn without in-flight placeholders,
\* then the user turn, then exactly one agent turn: the final one with the
\* analysis result, or an error turn; no placeholder remains.
C2_TurnEndsWithOneAgentTurn ==
    ended.how # "none" =>
        LET after == ended.after
            head  == withoutTyping(ended.before) \o <<ended.userMessage>>
        IN /\ Len(after) = Len(head) + 1
           /\ SubSeq(after, 1, Len(head)) = head
           /\ after[Len(after)].sender = "agent"
           /\ ~after[Len(after)].isTyping
           /\ \/ after[Len(after)].isError /\ after[Len(after)].analysisResult = NoResult
              \/ ~after[Len(after)].isError /\ after[Len(after)].analysisResult # NoResult
           /\ withoutTyping(after) = after

-----------------------------------------------------------------------------
(* Properties of the memory optimization, checked under SpecMemory          *)

\* C11: when the text of the transcript (the new user turn included) is
\* longer than the threshold, the history of the prompt is the lines of the
\* last 4 non-in-flight turns (of all of them when there are fewer), in order
\* and verbatim, and the text given to summarizeConversation is the lines of
\* the turns before those, so that the two parts make up the transcript.
C11_OverLimitSplitsAtLastK ==
    LET valid == withoutTyping(Append(turn.before, turn.userMessage))
        n == Len(valid)
        k == IF n < 4 THEN n ELSE 4
        recent == SubSeq(valid, n - k + 1, n)
        older == SubSeq(valid, 1, n - k)
    IN (TurnInFlight /\ Len(joinLines(valid)) > HISTORY_CHAR_LIMIT) =>
          /\ turn.historyForPrompt = joinLines(recent)
          /\ \E s \in summaries : s.id = turn.id /\ s.text = joinLines(older)
          /\ Cardinality({s \in summaries : s.id = turn.id}) = 1

\* A turn is in flight whose transcript is over the threshold and holds more
\* than 4 turns, so that there is an older part to summarize.
C11_Witness ==
    /\ TurnInFlight
    /\ Len(turn.fullHistoryText) > HISTORY_CHAR_LIMIT
    /\ Len(turn.before) >= 5
    /\ \E s \in summaries : s.id = turn.id /\ s.text # ""

-----------------------------------------------------------------------------
(* Properties of the session state machine, checked under Spec              *)

\* An upload is being processed.
UploadPending == task.kind \in {"zip", "preAnalysis", "text", "getPreAnalysis"}

Loading == appState \in {"loading-pre-analysis", "LOADING"}

\* The suggestions are shown (App.tsx shows them in its state PRE_ANALYSIS,
\* once the file is set) and what they are made of is held.
ShowingSuggestions ==
    \/ /\ app = "stream"
       /\ appState = "showing_suggestions"
       /\ {"summary", "suggestedQuestions"} \subseteq DOMAIN preAnalysisResult
       /\ currentFile # Null
    \/ /\ app = "props"
       /\ appState = "PRE_ANALYSIS"
       /\ {"summary", "suggestedQuestions"} \subseteq DOMAIN preAnalysis
       /\ dataProfile # Null
       /\ file # Null
       /\ fileName # ""

InError == appState \in {"error", "ERROR"} /\ error # Null

\* App.tsx shows the chat with the transcript it found stored for the file.
RestoredChat ==
    /\ app = "props"
    /\ appState = "CHAT"
    /\ Len(messages) > 0
    /\ messages = getChatHistory(localStorage, getHistoryKey(fileName))
    /\ dataProfile # Null

\* What a step does to an upload: the step that receives it shows the loading
\* view (or the error, when the file is rejected at once), the loading view
\* stays while the upload is processed, and the step that ends the processing
\* shows the suggestions or the error (or, if allowed, the restored chat).  A
\* reload of the page is no step of the upload.
UploadStep(allowRestore) ==
    /\ uploads' # uploads => (UploadPending' /\ Loading') \/ (~UploadPending' /\ InError')
    /\ (UploadPending /\ UploadPending') => Loading'
    /\ (UploadPending /\ ~UploadPending' /\ reloads' = reloads) =>
          \/ ShowingSuggestions'
          \/ InError'
          \/ allowRestore /\ RestoredChat'

\* C12 (as the code has it): an upload moves the session to LOADING and from
\* there to SHOWING_SUGGESTIONS, holding the pre-analysis summary and the
\* suggested questions, or to ERROR, or, in App.tsx, when a transcript is
\* stored under the name of the file, to CHAT with that transcript.
C12_UploadEndsInSuggestionsErrorOrRestoredChat == [][UploadStep(TRUE)]_vars

\* The page was reloaded, the file uploaded again, and the chat is shown
\* with the stored transcript although no pre-analysis was made.
C12_Witness ==
    /\ RestoredChat
    /\ reloads = 1
    /\ uploads = 2
    /\ preAnalysis = Null
    /\ turns = {}

\* C12 as stated: an upload never leads to any state other than LOADING,
\* SHOWING_SUGGESTIONS and ERROR.
C12_UploadEndsInSuggestionsOrError == [][UploadStep(FALSE)]_vars

InChat == appState \in {"chat", "CHAT"}

\* The transcript is one agent turn that carries a completed analysis result.
SeededChat ==
    /\ Len(messages) = 1
    /\ messages[1].sender = "agent"
    /\ ~messages[1].isTyping
    /\ ~messages[1].isError
    /\ messages[1].analysisResult # NoResult

\* C13: a question selected in SHOWING_SUGGESTIONS moves the session to
\* LOADING (or to ERROR), and CHAT is entered only from there, with a
\* transcript of exactly one agent turn that carries the analysis result.
C13_QuestionLeadsToSeededChatOrError ==
    [][ /\ (ShowingSuggestions /\ appState' # appState) =>
              appState' \in {"loading-analysis", "LOADING", "error", "ERROR"}
        /\ (InChat' /\ ~InChat) =>
              appState \in {"loading-analysis", "LOADING"} /\ SeededChat' ]_vars

\* What a reset leaves behind: the upload view with nothing held. The key
\* is the one of the file that was current when the reset was asked for.
Discarded(oldName) ==
    /\ appState \in {"pre-analysis", "PRE_ANALYSIS"}
    /\ error = Null
    /\ messages = <<>>
    /\ conversationSummary = ""
    /\ currentFile = Null /\ preAnalysisResult = Null /\ analysisResult = Null
    /\ file = Null /\ fileName = "" /\ csvData = <<>>
    /\ dataProfile = Null /\ preAnalysis = Null
    /\ getHistoryKey(oldName) \notin DOMAIN localStorage

ResetStep == handleReset \/ resetState

\* C14: a reset asked for by the user, from any state that offers one, puts
\* the session in PRE_ANALYSIS with the profile, the pre-analysis and the
\* analysis results, the error, the rolling summary and the transcript
\* discarded, and with no transcript stored under the key of the file that
\* was current.
C14_ResetDiscardsEverything ==
    [][ResetStep => \E oldName \in {fileName} : Discarded(oldName)']_vars

\* A chat of App.tsx that stored its transcript has been reset.
C14_Witness ==
    /\ app = "props" /\ reloads = 0 /\ turnCount >= 1
    /\ appState = "PRE_ANALYSIS" /\ file = Null /\ fileName = ""
    /\ messages = <<>> /\ DOMAIN localStorage = {}

-----------------------------------------------------------------------------
(* Properties of the streamed chat turn, checked under Spec *)

\* The chunks in the order in which they arrived, as one text.
RECURSIVE inArrivalOrder(_)
inArrivalOrder(chunks) ==
    IF chunks = <<>> THEN "" ELSE Head(chunks) \o inArrivalOrder(Tail(chunks))

Streaming == app = "stream" /\ turn.pc = "streaming"

Placeholder == {i \in 1..Len(messages) : messages[i].id = turn.agentTypingId}

\* C15: while a chat turn is streamed, the accumulated text is the chunks
\* received so far in arrival order and the agent turn is in typing mode
\* after every chunk, also when the text so far is complete JSON; the turn
\* is final only when the stream has been read to its end, and its result is
\* the parse of the whole text.
C15_TypingUntilStreamEnds ==
    /\ [](Streaming =>
            /\ turn.accumulatedJson = inArrivalOrder(SubSeq(turn.stream, 1, turn.read))
            /\ Placeholder # {}
            /\ \A i \in Placeholder : messages[i].isTyping)
    /\ [][(Streaming /\ ended'.how = "final") =>
            /\ turn.read = Len(turn.stream)
            /\ \A i \in Placeholder :
                  /\ ~messages'[i].isTyping
                  /\ messages'[i].analysisResult =
                        JSONparse(inArrivalOrder(turn.stream)).value]_vars

\* The first chunk was complete JSON and a second chunk is still to come.
C15_Witness ==
    /\ Streaming
    /\ turn.read = 1 /\ Len(turn.stream) = 2
    /\ JSONparse(turn.accumulatedJson).ok
    /\ \E i \in Placeholder :
          messages[i].isTyping /\ messages[i].analysisResult # NoResult

-----------------------------------------------------------------------------
(* Properties of the service's failures, checked under Spec *)

\* The last service call got text from the completion service, and the text
\* is not JSON.
NonJsonReply ==
    /\ failure.path # "none"
    /\ failure.reply # NoReply
    /\ failure.reply.ok
    /\ ~JSONparse(trim(failure.reply.value)).ok

\* C16: when the completion service returns text that is not valid JSON, the
\* analysis fails with the parsing-error class, carrying a title, and not
\* with the service-error class, in the single-shot path and in the
\* streaming path.
C16_NonJsonTextIsParseError ==
    NonJsonReply =>
        /\ failure.error.cls = "DataParsingError"
        /\ failure.error.title # NoTitle

\* The last service call failed with a failure of the completion service.
ServiceFailure ==
    /\ failure.path # "none"
    /\ failure.reply # NoReply
    /\ ~failure.reply.ok

\* The three kinds of GeminiApiError.
InvalidKeyError ==
    GeminiApiError(<<"A chave da ", "API",
                     " fornecida e invalida. Verifique sua configuracao.">>)
QuotaError ==
    GeminiApiError(<<"A cota de uso da ", "API",
                     " foi excedida. Por favor, tente novamente mais tarde.">>)
OtherError(e) ==
    /\ e.cls = "GeminiApiError"
    /\ Len(e.message) >= 2
    /\ e.message[1] \in {"Falha ao obter analise do Gemini. Causa: ",
                         "Falha ao obter pre-analise do Gemini. Causa: "}

\* C17: a failure of the completion service that the retry wrapper lets out
\* reaches the caller as a GeminiApiError of one of the three kinds, for a
\* single-shot call, for the opening of a stream and for a failure raised
\* while the stream is consumed.
C17_ServiceFailureIsGeminiApiError ==
    ServiceFailure =>
        \/ failure.error = InvalidKeyError
        \/ failure.error = QuotaError
        \/ OtherError(failure.error)

-----------------------------------------------------------------------------
(* Properties of the post-processing of plot tables, checked under          *)
(* SpecNormalize                                                            *)

\* The plot data of the first finding, as it was parsed.
RawData == parsedResult.findings[1].plot.obj.data

HasPlot1 == parsedResult # Null /\ DOMAIN parsedResult.findings[1].plot = {"obj"}

\* The first finding carries a table: a header row and rows of values.
IsTable == HasPlot1 /\ RawData \in Tables

\* The texts that stand, once trimmed, for a finite number, and the number
\* each stands for.
NumericTexts == {"150", "200", " 200 "}
NumberWritten(text) == IF text = "150" THEN Num(150) ELSE Num(200)

\* What the claim says of a cell.
CellAsClaimed(value) ==
    IF DOMAIN value = {"str"} /\ value.str \in NumericTexts
    THEN NumberWritten(value.str)
    ELSE value

\* The plot data of finding i after the first pass of callGemini.
DataOut(i) == viaCallGemini[1].value.findings[i].plot.obj.data

\* C18: of a table whose first row is the header, callGemini makes one row
\* object per data row, in the same order, keyed by the header names; a cell
\* that is text whose trimmed form is non-empty and numeric (a finite
\* number) has become that number, every other cell (other text, empty or
\* blank text, null, a number, a missing cell) is what it was; the monthly
\* sales of the spec come out as {Month: Jan, Sales: 150},
\* {Month: Feb, Sales: 200}.
C18_TableBecomesRowObjects ==
    (IsTable /\ viaCallGemini # <<>>) =>
        /\ viaCallGemini[1].ok
        /\ LET headers == RawData.arr[1].arr
               rows == DataOut(1).arr
           IN /\ Len(rows) = Len(RawData.arr) - 1
              /\ \A i \in 1..Len(rows) :
                    /\ DOMAIN rows[i] = {"obj"}
                    /\ DOMAIN rows[i].obj = {String(headers[j]) : j \in 1..Len(headers)}
                    /\ \A j \in 1..Len(headers) :
                          rows[i].obj[String(headers[j])] =
                              CellAsClaimed(IF j <= Len(RawData.arr[i + 1].arr)
                                            THEN RawData.arr[i + 1].arr[j]
                                            ELSE Undefined)
        /\ DataOut(2) = Arr(<<Obj([Month |-> Str("Jan"), Sales |-> Num(150)]),
                              Obj([Month |-> Str("Feb"), Sales |-> Num(200)])>>)
        /\ \A i \in 1..2 :
              viaCallGemini[1].value.findings[i].insight = parsedResult.findings[i].insight
        /\ viaCallGemini[1].value.suggested_followups = parsedResult.suggested_followups

\* The plot of the first finding has no data rows: its data is absent, is
\* no array, or is an array of fewer than two rows.
NoDataRows ==
    /\ HasPlot1
    /\ \/ RawData = Undefined
       \/ ~isArray(RawData)
       \/ isArray(RawData) /\ Len(RawData.arr) < 2

\* What a pass returned is the response with no rows in the first plot and
\* with the rest as it should be.
EmptyRowsAndTheRest(out) ==
    /\ out.ok
    /\ out.value.findings[1].plot.obj.data = Arr(<<>>)
    /\ out.value.findings[1].insight = parsedResult.findings[1].insight
    /\ out.value.findings[2].plot.obj.data =
          Arr(<<Obj([Month |-> Str("Jan"), Sales |-> Num(150)]),
                Obj([Month |-> Str("Feb"), Sales |-> Num(200)])>>)
    /\ out.value.suggested_followups = parsedResult.suggested_followups

\* C19: when the plot data of a finding is absent, is no array or has fewer
\* than two rows, the post-processing gives that plot an empty sequence of
\* rows and returns the rest of the response, without an error, in callGemini
\* and in submitQuery.
C19_NoDataRowsGivesEmptyRows ==
    NoDataRows =>
        /\ viaCallGemini # <<>> => EmptyRowsAndTheRest(viaCallGemini[1])
        /\ viaSubmitQuery # <<>> => EmptyRowsAndTheRest(viaSubmitQuery[1])

\* Both passes of a post-processing have run and the first one returned.
TwoPasses(passes) == Len(passes) = 2 /\ passes[1].ok

\* C20: post-processing a response that has been post-processed returns it
\* unchanged, normalize(normalize(r)) = normalize(r), in callGemini and in
\* submitQuery; a finding whose plot data is row objects comes out as it
\* went in: row objects are neither transposed nor coerced again.
C20_PostProcessingIsIdempotent ==
    /\ TwoPasses(viaCallGemini) => viaCallGemini[2] = viaCallGemini[1]
    /\ TwoPasses(viaSubmitQuery) => viaSubmitQuery[2] = viaSubmitQuery[1]
    /\ (HasPlot1 /\ RawData = RowObjects) =>
          /\ viaCallGemini # <<>> =>
                /\ viaCallGemini[1].ok
                /\ viaCallGemini[1].value.findings[1] = parsedResult.findings[1]
          /\ viaSubmitQuery # <<>> =>
                /\ viaSubmitQuery[1].ok
                /\ viaSubmitQuery[1].value.findings[1] = parsedResult.findings[1]

\* A table with a padded number and a blank cell has gone twice through
\* either post-processing.
C20_Witness ==
    /\ TwoPasses(viaCallGemini)
    /\ TwoPasses(viaSubmitQuery)
    /\ HasPlot1
    /\ RawData = Arr(<<Arr(<<Str("Month"), Str("Sales")>>),
                       Arr(<<Str(" 200 "), Str(" ")>>)>>)
    /\ viaCallGemini[2].value.findings[1].plot.obj.data =
          Arr(<<Obj([Month |-> Num(200), Sales |-> Str(" ")])>>)

\* The keys that the data_keys of a plot name.
KeysNamed(plot) == {plot.data_keys.x} \cup {plot.data_keys.y[j] : j \in 1..Len(plot.data_keys.y)}

\* Every row object of every plot of the response has every key that the
\* data_keys of the plot name.
KeysInEveryRow(result) ==
    \A i \in 1..Len(result.findings) :
        LET plot == result.findings[i].plot IN
        (DOMAIN plot = {"obj"} /\ isArray(plot.obj.data)) =>
            \A r \in 1..Len(plot.obj.data.arr) :
                LET row == plot.obj.data.arr[r] IN
                DOMAIN row = {"obj"} => KeysNamed(plot.obj) \subseteq DOMAIN row.obj

\* C21: in a response that the post-processing returns, and that so goes on
\* to be rendered, every key named in the data_keys of a plot exists in every
\* row of the plot's data; a response of which this is not true is rejected
\* with an error.
C21_DataKeysExistInRows ==
    /\ \A p \in 1..Len(viaCallGemini) :
          viaCallGemini[p].ok => KeysInEveryRow(viaCallGemini[p].value)
    /\ \A p \in 1..Len(viaSubmitQuery) :
          viaSubmitQuery[p].ok => KeysInEveryRow(viaSubmitQuery[p].value)

-----------------------------------------------------------------------------
(* The column profiler, checked under SpecProfile *)

\* The text has resolved and profileData returned its profile.
Profiled == app = "props" /\ task.kind # "text" /\ dataProfile # Null

\* The text has resolved and profileData threw.
ProfileFailed == app = "props" /\ task.kind # "text" /\ dataProfile = Null

\* The text as uploaded, said without the profiler's own steps: a line is
\* empty when it holds nothing but whitespace, the header is the first line,
\* and the data lines are the lines after it up to the last line that is not
\* empty (empty lines after that one are the end of the text).
EmptyLine(line) == Len(line) = 1 /\ line[1] \in {"", " "}
LastLine == CHOOSE n \in 0..Len(csvData) :
                /\ n > 0 => ~EmptyLine(csvData[n])
                /\ \A m \in (n + 1)..Len(csvData) : EmptyLine(csvData[m])
HeaderCells == IF LastLine = 0 THEN <<"">> ELSE csvData[1]
DataLines == IF LastLine = 0 THEN <<>> ELSE SubSeq(csvData, 2, LastLine)

\* The cell of a data line under a column holds no value: the line is too
\* short to have it, or the cell is empty or whitespace.
BlankCell(r, j) == j > Len(DataLines[r]) \/ DataLines[r][j] \in {"", " "}
BlankCells == {<<r, j>> \in (1..Len(DataLines)) \X (1..Len(HeaderCells)) : BlankCell(r, j)}

RECURSIVE sumMissing(_, _)
sumMissing(columns, n) ==
    IF n = 0 THEN 0 ELSE columns[n].missing + sumMissing(columns, n - 1)

\* C22: the profile of a text with at least one data line has one column per
\* header cell and columnCount equal to that number, rowCount equal to the
\* number of data lines, for every column a missing count equal to the number
\* of data lines whose cell under it is blank or absent, and the sum of the
\* missing counts equal to the number of blank cells counted over the text.
C22_ProfileCountsRowsColumnsAndBlanks ==
    Profiled =>
        /\ dataProfile.columnCount = Len(dataProfile.columns)
        /\ dataProfile.columnCount = Len(HeaderCells)
        /\ dataProfile.rowCount = Len(DataLines)
        /\ \A j \in 1..Len(HeaderCells) :
              dataProfile.columns[j].missing =
                  Cardinality({r \in 1..Len(DataLines) : BlankCell(r, j)})
        /\ sumMissing(dataProfile.columns, Len(dataProfile.columns)) = Cardinality(BlankCells)

\* Three data lines, one of them short, one of them empty, and a final
\* newline, have been profiled.
C22_Witness ==
    /\ Profiled
    /\ dataProfile.rowCount = 3
    /\ dataProfile.columnCount = 2
    /\ Len(csvData) = 5
    /\ \E r \in 1..3 : Len(DataLines[r]) = 1 /\ ~EmptyLine(DataLines[r])
    /\ \E r \in 1..3 : EmptyLine(DataLines[r])
    /\ dataProfile.columns[2].missing >= 2

\* The values a column holds, said over the text as uploaded: the cells of
\* the data lines under it that are not blank, without their quotes.
ValuesOf(j) ==
    {IF DataLines[r][j] = "\" 5\"" THEN " 5" ELSE DataLines[r][j] :
        r \in {q \in 1..Len(DataLines) : ~BlankCell(q, j)}}

IntegerTexts == {"1", "-3"}
NumeralTexts == {"1", "-3", "1.5", " 5"}
DateText(v) == v = "2024-01-01" \/ (v \in NumeralTexts /\ dateParseLenient)

\* The type the values of a column call for.
TypeOf(values) ==
    IF values = {} THEN "EMPTY"
    ELSE IF values \subseteq IntegerTexts THEN "INTEGER"
    ELSE IF values \subseteq NumeralTexts THEN "FLOAT"
    ELSE IF \A v \in values : DateText(v) THEN "DATE"
    ELSE "STRING"

\* C23: a column is EMPTY exactly when all its values are blank; otherwise
\* INTEGER exactly when every non-blank value matches the integer pattern;
\* otherwise FLOAT exactly when every non-blank value is numeric; otherwise
\* DATE exactly when every non-blank value parses as a date or starts with
\* YYYY-MM-DD; otherwise STRING. Only the non-blank values count, so blank
\* cells never change the type.
C23_ColumnTypeFollowsItsNonBlankValues ==
    Profiled =>
        \A j \in 1..Len(dataProfile.columns) :
            dataProfile.columns[j].type = TypeOf(ValuesOf(j))

\* A column of a negative integer, a decimal and a blank cell was typed
\* FLOAT, beside a column of integers.
C23_Witness ==
    /\ Profiled
    /\ dataProfile.columns[1].type = "INTEGER"
    /\ dataProfile.columns[2].type = "FLOAT"
    /\ dataProfile.columns[2].missing = 1
    /\ ValuesOf(2) = {"-3", "1.5"}

\* C24: on a text without data rows (empty, whitespace only, or a header
\* alone, with or without its newline) profileData throws its data-format
\* error and returns no profile, and the upload that read the text ends in
\* ERROR with that error's message as the payload.
C24_NoDataRowsIsAnErrorAndNoProfile ==
    (app = "props" /\ task.kind # "text" /\ Len(DataLines) = 0) =>
        /\ ~profileData(csvData).ok
        /\ profileData(csvData).error.message = <<"CSV file has no data rows.">>
        /\ dataProfile = Null
        /\ appState = "ERROR"
        /\ error # Null
        /\ error.message = <<"CSV file has no data rows.">>

\* A header followed by its newline and nothing else was uploaded.
C24_Witness ==
    /\ ProfileFailed
    /\ csvData = << <<"id", "v">>, <<"">> >>
    /\ appState = "ERROR"

-----------------------------------------------------------------------------
(* What each view is shown with, checked under Spec *)

\* C25: in every reachable state the view has the data it needs. A session
\* showing the chat has an analysis result (a transcript, in the generation of
\* App.tsx) and its file (its profile) set; a session showing suggestions has
\* a pre-analysis result and the current file set; a session showing an error
\* has the error payload set.
C25_ViewsHaveTheirData ==
    /\ (app = "stream" /\ appState = "chat") =>
            analysisResult # Null /\ currentFile # Null
    /\ (app = "stream" /\ appState = "showing_suggestions") =>
            preAnalysisResult # Null /\ currentFile # Null
    /\ (app = "stream" /\ appState = "error") => error # Null
    /\ (app = "props" /\ appState = "CHAT") =>
            Len(messages) > 0 /\ dataProfile # Null /\ fileName # ""
    /\ (app = "props" /\ appState = "PRE_ANALYSIS" /\ fileName # "") =>
            preAnalysis # Null /\ file # Null
    /\ (app = "props" /\ appState = "ERROR") => error # Null

\* A stored transcript was restored: the chat is shown with the transcript and
\* the profile, though no file was ever set.
C25_Witness ==
    /\ app = "props"
    /\ appState = "CHAT"
    /\ file = Null
    /\ dataProfile # Null
    /\ Len(messages) > 0
    /\ turns = {}

-----------------------------------------------------------------------------
(* The stored transcript of App.tsx, checked under Spec *)

StoredTyping ==
    \E key \in DOMAIN localStorage :
        \E i \in 1..Len(localStorage[key]) : localStorage[key][i].isTyping

\* C28: the persisted transcript never contains a turn marked isTyping, so a
\* transcript restored from it holds only user turns and finished agent turns.
C28_NoTypingTurnIsStored ==
    /\ ~(app = "props" /\ StoredTyping)
    /\ (app = "props" /\ appState = "CHAT" /\ turns = {}) =>
            \A i \in 1..Len(messages) : ~messages[i].isTyping

-----------------------------------------------------------------------------
(* Completions that arrive after a reset, checked under Spec *)

\* A chat turn or a summarization started before the last reset is in flight.
StaleTurnPending ==
    \/ app = "stream" /\ staleTurns # {}
    \/ app = "props" /\ \E t \in turns : t.epoch # epoch
StaleSummaryPending ==
    app = "stream" /\ \E s \in summaries : ~(ChatMounted /\ s.epoch = epoch)

\* The step in which such a call completes.
StaleCompletion ==
    \/ app = "stream" /\ \E id \in staleTurns : staleTurns' = staleTurns \ {id}
    \/ app = "stream" /\ \E s \in summaries :
           ~(ChatMounted /\ s.epoch = epoch) /\ summaries' = summaries \ {s}
    \/ app = "props" /\ reloads' = reloads
           /\ \E t \in turns : t.epoch # epoch /\ turns' = turns \ {t}

\* After a reset and before the next upload nothing of the old chat is shown.
FreshAfterReset ==
    /\ (app = "stream" /\ appState = "pre-analysis") =>
            messages = <<>> /\ conversationSummary = ""
    /\ (app = "props" /\ appState = "PRE_ANALYSIS" /\ fileName = "") => messages = <<>>

\* C27: the completion of a chat turn or of a summarization that was started
\* before a reset adds no turn to the transcript, restores no summary and does
\* not move the session out of the state it is in (PRE_ANALYSIS, right after
\* the reset).
C27_StaleCompletionChangesNothing ==
    /\ []FreshAfterReset
    /\ [][StaleCompletion =>
            /\ messages' = messages
            /\ conversationSummary' = conversationSummary
            /\ appState' = appState]_vars

\* The session was reset while a question was being answered and while a
\* summarization was running: both calls are still to complete.
C27_Witness ==
    /\ app = "stream"
    /\ appState = "pre-analysis"
    /\ StaleTurnPending
    /\ StaleSummaryPending

-----------------------------------------------------------------------------
(* Retried errors and errors reported as quota, checked under SpecRetry *)

\* The error callApiWithRetry threw is reported as quota-exceeded by the catch
\* block of the service function that called it.
ReportedAsQuota(e) ==
    mapGeminiError(e, "Falha ao obter analise do Gemini. Causa: ") = QuotaError

\* C29: the errors callApiWithRetry retries are exactly the errors reported as
\* quota-exceeded once the retries are exhausted: an error thrown because
\* all MAX_RETRIES attempts failed with a retried error is reported as quota,
\* and an error reported as quota was thrown for that reason.
C29_RetriedIffReportedAsQuota ==
    retryPc = "thrown" =>
        (ReportedAsQuota(retryOut) <=> attempt = MAX_RETRIES)

-----------------------------------------------------------------------------
(* The two normalizers side by side, checked under SpecNormalize *)

\* C30: the conversion of callGemini (convertData) and the conversion the
\* streaming chat applies to a parsed response give the same row objects for
\* every table: empty strings, whitespace-only strings, padded strings and
\* cells that are not strings included.
C30_BothNormalizersAgree ==
    (Len(viaCallGemini) >= 1 /\ Len(viaSubmitQuery) >= 1
        /\ viaCallGemini[1].ok /\ viaSubmitQuery[1].ok) =>
            viaCallGemini[1].value = viaSubmitQuery[1].value

-----------------------------------------------------------------------------
(* Termination of a chat turn, checked under SpecLive *)

\* C26: every chat turn terminates: the busy flag (isLoading of the streaming
\* ChatInterface, isProcessing of App.tsx) is eventually cleared, whether the
\* turn succeeds, fails at once, fails while the stream is read, or exhausts
\* its retries.
C26_BusyFlagIsEventuallyCleared ==
    /\ (app = "stream" /\ isLoading) ~> ~isLoading
    /\ (app = "props" /\ isProcessing) ~> ~isProcessing

====
